---- MODULE Spec2Model ----
(***************************************************************************)
(* A model of the oncall-runbook retrieval-and-answer pipeline:            *)
(*   - AntiGenericGate        (api/app/services/anti_generic_gate.py)      *)
(*   - RAGService.ask_question (api/app/services/rag_service.py)           *)
(*   - RetrievalPipeline       (api/app/services/retrieval.py)             *)
(*   - FAISSService            (api/app/services/faiss_service.py)         *)
(*                                                                         *)
(* Texts are modelled as sequences of tokens, one token per line of the    *)
(* answer, joined by "\n" as _compose_answer_from_plan joins its parts.    *)
(* Scores are fixed-point integers (the unit is stated at each operator).  *)
(***************************************************************************)
EXTENDS Integers, Sequences, FiniteSets, TLC

VARIABLES
    \* ---- AntiGenericGate: the arguments of the last call and its report
    answer, citations, diagnostics, report,
    \* ---- RAGService.ask_question: what its collaborators hand it, and its response
    question, search_found, planned_response, tools_ran, fault, response,
    \* ---- RetrievalPipeline.retrieve_diverse_results: the knowledge base and the
    \*      query it runs on, the stage that fails, and the lists of each stage
    faiss_metadata, vector_raw, bm25_raw, top_k, failure, retrieval_pc,
    vector_results, bm25_results, merged_results, final_results,
    \* ---- FAISSService: the index and the metadata each instance holds in
    \*      memory, the two files they share, where each instance stands in
    \*      _load_index or _save_index, and its last call
    index, metadata, index_file, metadata_file, pc, save_id, saves, loaded, last_call,
    \* ---- DocumentProcessor: its configuration, the document whose chunks are
    \*      followed and the chunks of its first processing, the document
    \*      processed last and its chunks, which documents were processed so far
    chunk_size, chunk_overlap, watched, first_done, first_chunks, document,
    processed_chunks, log,
    \* ---- Planner.plan_response: the chunks it is given, whether its body
    \*      fails, and the PlannedResponse it returns
    plan_chunks, plan_fault, plan,
    \* ---- DatabaseService and the /ask/structured endpoint: the rows of the
    \*      sessions and messages tables, the ids uuid4 has handed out, and the
    \*      outcome of the last call
    sessions, messages, issued, session_reply,
    \* ---- Sectionizer: the title and the content of a section, and the Section
    \*      detect_sections returns for it
    section_title, section_content, detected,
    \* ---- Steps 5 and 6 of retrieve_diverse_results on their own: the merged
    \*      candidates, the cross-encoder (None when there is none), top_k and
    \*      the list _mmr_diversity_selection returns
    mmr_candidates, cross_encoder, mmr_top_k, mmr_selected,
    \* ---- IngestionService: the files of the manifest with their hashes, the
    \*      content each file had at its last successful ingestion, the result of
    \*      the last ingestion, what the last ask_question found in the index of
    \*      the RAG service, and the number of ingestions so far
    manifest, ingested, ingest_result, rag_seen, ingests,
    \* ---- EmbeddingService: the environment of the process (provider, credentials,
    \*      library, dimension, whether a provider call succeeds), the client and
    \*      model of the service, its _initialized flag, the last call with what it
    \*      returned, and the number of calls so far
    environment, client, model, initialized, embeddings, calls

gateVars == <<answer, citations, diagnostics, report>>
askVars == <<question, search_found, planned_response, tools_ran, fault, response>>
retrievalVars == <<faiss_metadata, vector_raw, bm25_raw, top_k, failure, retrieval_pc,
                   vector_results, bm25_results, merged_results, final_results>>
indexVars == <<index, metadata, index_file, metadata_file, pc, save_id, saves, loaded,
               last_call>>
chunkVars == <<chunk_size, chunk_overlap, watched, first_done, first_chunks, document,
               processed_chunks, log>>
planVars == <<plan_chunks, plan_fault, plan>>
sessionVars == <<sessions, messages, issued, session_reply>>
sectionVars == <<section_title, section_content, detected>>
mmrVars == <<mmr_candidates, cross_encoder, mmr_top_k, mmr_selected>>
ingestVars == <<manifest, ingested, ingest_result, rag_seen, ingests>>
embeddingVars == <<environment, client, model, initialized, embeddings, calls>>
vars == <<gateVars, askVars, retrievalVars, indexVars, chunkVars, planVars, sessionVars, sectionVars, mmrVars, ingestVars, embeddingVars>>

\* What the operations of one component leave alone.
exceptGate == <<askVars, retrievalVars, indexVars, chunkVars, planVars, sessionVars, sectionVars, mmrVars, ingestVars, embeddingVars>>
exceptAsk == <<gateVars, retrievalVars, indexVars, chunkVars, planVars, sessionVars, sectionVars, mmrVars, ingestVars, embeddingVars>>
exceptRetrieval == <<gateVars, askVars, indexVars, chunkVars, planVars, sessionVars, sectionVars, mmrVars, ingestVars, embeddingVars>>
exceptIndex == <<gateVars, askVars, retrievalVars, chunkVars, planVars, sessionVars, sectionVars, mmrVars, ingestVars, embeddingVars>>
exceptChunk == <<gateVars, askVars, retrievalVars, indexVars, planVars, sessionVars, sectionVars, mmrVars, ingestVars, embeddingVars>>
exceptPlan == <<gateVars, askVars, retrievalVars, indexVars, chunkVars, sessionVars, sectionVars, mmrVars, ingestVars, embeddingVars>>
exceptSession == <<gateVars, askVars, retrievalVars, indexVars, chunkVars, planVars, sectionVars, mmrVars, ingestVars, embeddingVars>>
exceptSection == <<gateVars, askVars, retrievalVars, indexVars, chunkVars, planVars, sessionVars, mmrVars, ingestVars, embeddingVars>>
exceptMmr == <<gateVars, askVars, retrievalVars, indexVars, chunkVars, planVars, sessionVars, sectionVars, ingestVars, embeddingVars>>
exceptIngest == <<gateVars, askVars, retrievalVars, indexVars, chunkVars, planVars, sessionVars, sectionVars, mmrVars, embeddingVars>>
exceptEmbedding == <<gateVars, askVars, retrievalVars, indexVars, chunkVars, planVars, sessionVars, sectionVars, mmrVars, ingestVars>>

(***************************************************************************)
(* Generic helpers                                                         *)
(***************************************************************************)
\* Python's None, as a record so that it compares with the records it replaces.
NoneVal == [kind |-> "None"]

Min(a, b) == IF a <= b THEN a ELSE b
Max(a, b) == IF a >= b THEN a ELSE b

Range(s) == {s[i] : i \in 1..Len(s)}

\* All sequences over S of length at most n.
SeqsUpTo(S, n) == UNION {[1..k -> S] : k \in 0..n}

\* s with x inserted so that it becomes element number i.
InsertAt(s, i, x) == SubSeq(s, 1, i - 1) \o <<x>> \o SubSeq(s, i, Len(s))

(***************************************************************************)
(* Answer texts.  One token per line:                                      *)
(*   "FC"  the line "**First checks:**"                                    *)
(*   "QC"  the line "**Quick Check:**"                                     *)
(*   "FIX" the line "**Fix:**"                                             *)
(*   "HDR" any other bold line ("**Why:**", "**Sources:**", ...)           *)
(*   "BUL" a bullet line  "• text"                                         *)
(*   "NUM" a numbered line "1. text"                                       *)
(*   "TXT" a line of plain text                                            *)
(*   "BAN" a line holding a banned generic phrase                          *)
(*   "CHK" a bullet line whose text ends with the word "check"             *)
(*   "DOC" a plain line that starts with "the documentation"               *)
(*   "BBN" a bullet line whose text holds a banned generic phrase          *)
(*   "DBL" a bullet line whose text starts with a bullet mark ("• * text") *)
(*   "EMP" an empty line                                                   *)
(*   "PFX" a line of plain text behind a prompt prefix such as "System:"   *)
(* No banned phrase lies in a "CHK" or a "DOC" line, but the pattern       *)
(* check\s+the\s+documentation matches across the break between them.      *)
(* Lines are joined by "\n", so every line but the last is followed by     *)
(* whitespace.                                                             *)
(***************************************************************************)
Tokens == {"FC", "QC", "FIX", "HDR", "BUL", "NUM", "TXT", "BAN", "CHK", "DOC", "BBN", "DBL",
           "EMP", "PFX"}

\* A line that contains "**".
IsBold(t) == t \in {"FC", "QC", "FIX", "HDR"}

\* A line that starts with a bullet mark and a blank.
IsBullet(t) == t \in {"BUL", "CHK", "BBN", "DBL"}

\* AntiGenericGate.__init__: thresholds
min_actionable_bullets == 3
min_distinct_files == 2
min_evidence_threshold == 2

\* The patterns tried in order by _count_actionable_bullets (the lists are
\* cut to the headers the token alphabet can express).
first_checks_patterns == <<"FC", "QC">>
fix_patterns == <<"FIX">>

\* _check_banned_phrases: the list of banned phrases found in the answer
\* (pattern.search runs over the whole text, and \s+ matches a line break).
check_banned_phrases(a) ==
    IF \/ \E i \in 1..Len(a) : a[i] \in {"BAN", "BBN"}
       \/ \E i \in 1..Len(a), j \in 1..Len(a) :
              /\ i < j /\ a[i] = "CHK" /\ a[j] = "DOC"
              /\ \A k \in (i + 1)..(j - 1) : a[k] = "EMP"
    THEN <<"check the documentation">>
    ELSE <<>>

\* Position of the first line equal to t (re.search finds the leftmost match); 0 if none.
FirstIndex(a, t) ==
    IF \E i \in 1..Len(a) : a[i] = t
    THEN CHOOSE i \in 1..Len(a) : a[i] = t /\ \A j \in 1..(i - 1) : a[j] # t
    ELSE 0

\* Last line of the lazy match  header.*?(?=\*\*|$)  that starts at line i:
\* the line before the next bold line, or the end of the text.
SectionEnd(a, i) ==
    IF \E j \in (i + 1)..Len(a) : IsBold(a[j])
    THEN (CHOOSE j \in (i + 1)..Len(a) :
              IsBold(a[j]) /\ \A k \in (i + 1)..(j - 1) : ~IsBold(a[k])) - 1
    ELSE Len(a)

\* Number of matches of [•\-*]\s+ in a: every bullet line (twice when its text
\* starts with a bullet mark), and every bold line that is followed by
\* whitespace (its closing "*" and the line break match), i.e. every bold line
\* but the last line of the text.
BulletMatches(a) ==
    Cardinality({k \in 1..Len(a) : IsBullet(a[k]) \/ (IsBold(a[k]) /\ k < Len(a))})
    + Cardinality({k \in 1..Len(a) : a[k] = "DBL"})

\* The same count inside the section that starts with the header at line i.
\* The header is its only bold line; "$" also matches before a line break that
\* ends the text, so a header followed by nothing but that break gets no match.
SectionMatches(a, i) ==
    LET header == IF i < Len(a) /\ ~(i = Len(a) - 1 /\ a[Len(a)] = "EMP") THEN 1 ELSE 0
    IN  header + Cardinality({k \in (i + 1)..SectionEnd(a, i) : IsBullet(a[k])})
               + Cardinality({k \in (i + 1)..SectionEnd(a, i) : a[k] = "DBL"})

\* Number of matches of \d+\.\s+ in a.
NumberedMatches(a) == Cardinality({k \in 1..Len(a) : a[k] = "NUM"})

\* The loop "for pattern in patterns: match = re.search(...); if match: count; break".
RECURSIVE SectionBullets(_, _)
SectionBullets(a, patterns) ==
    IF patterns = <<>> THEN 0
    ELSE LET i == FirstIndex(a, Head(patterns))
         IN  IF i # 0 THEN SectionMatches(a, i)
             ELSE SectionBullets(a, Tail(patterns))

\* _count_actionable_bullets
count_actionable_bullets(a) ==
    LET bullet_count == SectionBullets(a, first_checks_patterns)
                        + SectionBullets(a, fix_patterns)
                        + NumberedMatches(a)
    IN  IF bullet_count < min_actionable_bullets
        THEN BulletMatches(a)
        ELSE bullet_count

(***************************************************************************)
(* Citations: "filename#chunk_id" or a bare filename (chunk = "").         *)
(* BadCitation stands for a list element that is not a string (None):      *)
(* "'#' in citation" raises on it.                                         *)
(***************************************************************************)
BadCitation == [file |-> "None", chunk |-> "None"]
Cite(f, c) == [file |-> f, chunk |-> c]

\* Diagnostics: NoneVal, or a dict given by the set of its keys.
Dict(keys) == [kind |-> "dict", keys |-> keys]
log_keys == {"logs", "app", "nginx", "system"}
queue_keys == {"queues", "main", "dlq", "processing"}

\* The points of the citations alone.
evidence_from_citations(cs, d) == IF cs # <<>> THEN Min(Len(cs), 3) ELSE 0

\* _calculate_evidence_score
calculate_evidence_score(cs, d) ==
    LET base == IF cs # <<>> THEN Min(Len(cs), 3) ELSE 0
        truthy == d # NoneVal /\ d.keys # {}
        has_logs == truthy /\ d.keys \cap log_keys # {}
        has_queues == truthy /\ d.keys \cap queue_keys # {}
        bonus1 == IF has_logs \/ has_queues THEN 1 ELSE 0
        bonus2 == IF truthy /\ Cardinality(d.keys) >= 3 THEN 1 ELSE 0
    IN  base + bonus1 + bonus2

\* _count_distinct_files: the set of citation.split('#')[0]
count_distinct_files(cs) ==
    IF cs = <<>> THEN 0 ELSE Cardinality({cs[i].file : i \in 1..Len(cs)})

\* _generate_missing_context_message: the sections listed as missing and the
\* three counts it prints, or the message without sections.
generate_missing_context_message(issues, bullets, evidence, files) ==
    LET missing_sections ==
            (IF bullets < min_actionable_bullets THEN <<"First Response/Diagnostics">> ELSE <<>>)
         \o (IF evidence < min_evidence_threshold THEN <<"Detailed Diagnostics">> ELSE <<>>)
         \o (IF files < min_distinct_files THEN <<"Remediation/Fix Procedures">> ELSE <<>>)
         \o (IF \E i \in 1..Len(issues) : issues[i] = "generic_phrases"
             THEN <<"Specific Action Steps">> ELSE <<>>)
    IN  IF missing_sections # <<>>
        THEN [kind |-> "missing_context", sections |-> missing_sections,
              bullets |-> bullets, evidence |-> evidence, files |-> files]
        ELSE [kind |-> "quality_issue"]

\* "quality_score -= 2" for a banned phrase (each other check costs 1).
generic_phrase_penalty_one == 2 - 1
generic_phrase_penalty == 2

\* "if evidence_score < self.min_evidence_threshold"
insufficient_evidence_le(evidence_score) == evidence_score <= min_evidence_threshold
insufficient_evidence(evidence_score) == evidence_score < min_evidence_threshold

\* The except branch of check_answer_quality.
ErrorReport ==
    [passes_gate |-> FALSE, quality_score |-> -1, issues |-> <<"error">>,
     missing_context |-> [kind |-> "unable_to_validate"], metrics |-> NoneVal]

\* check_answer_quality
check_answer_quality(a, cs, d) ==
    IF \E i \in 1..Len(cs) : cs[i] = BadCitation
    THEN ErrorReport
    ELSE
    LET generic_phrases_found == check_banned_phrases(a)
        actionable_bullets == count_actionable_bullets(a)
        evidence_score == calculate_evidence_score(cs, d)
        distinct_files == count_distinct_files(cs)
        c1 == generic_phrases_found # <<>>
        c2 == actionable_bullets < min_actionable_bullets
        c3 == insufficient_evidence(evidence_score)
        c4 == distinct_files < min_distinct_files
        issues == (IF c1 THEN <<"generic_phrases">> ELSE <<>>)
               \o (IF c2 THEN <<"actionable">> ELSE <<>>)
               \o (IF c3 THEN <<"evidence">> ELSE <<>>)
               \o (IF c4 THEN <<"file_coverage">> ELSE <<>>)
        quality_score == 0 - (IF c1 THEN generic_phrase_penalty ELSE 0) - (IF c2 THEN 1 ELSE 0)
                           - (IF c3 THEN 1 ELSE 0) - (IF c4 THEN 1 ELSE 0)
        passes_gate == quality_score >= 0 /\ Len(issues) = 0
    IN  [passes_gate |-> passes_gate,
         quality_score |-> quality_score,
         issues |-> issues,
         missing_context |->
             IF ~passes_gate
             THEN generate_missing_context_message(issues, actionable_bullets,
                                                   evidence_score, distinct_files)
             ELSE NoneVal,
         metrics |-> [actionable_bullets |-> actionable_bullets,
                      evidence_score |-> evidence_score,
                      distinct_files |-> distinct_files,
                      generic_phrases_found |-> Len(generic_phrases_found)]]

\* enforce_gate: <<passes_gate, final_answer, quality_report>>
enforce_gate(a, cs, d) ==
    LET quality_check == check_answer_quality(a, cs, d)
    IN  IF quality_check.passes_gate
        THEN <<TRUE, a, quality_check>>
        ELSE <<FALSE, quality_check.missing_context, quality_check>>

(***************************************************************************)
(* The gate as a pure function: SpecGate draws its arguments from bounded  *)
(* sets and applies check_answer_quality; the Add actions change one       *)
(* argument the way "more bullets, more distinct-file citations" does and  *)
(* apply it again.                                                         *)
(***************************************************************************)
MaxAnswerLen == 3

\* The lines the drawn answers are made of: "DOC" is the plain text line, and
\* "**Quick Check:**" is read as "**First checks:**" is; a "CHK" bullet comes in
\* by AddItemAndCheck, empty lines with the answers ask_question composes.
GateTokens == {"FC", "FIX", "HDR", "BUL", "NUM", "BAN", "DOC"}

a1 == Cite("a.md", "c1")
a2 == Cite("a.md", "c2")
b1 == Cite("b.md", "")
CitationPool == {a1, a2, b1}
CitationLists == {<<>>, <<a1>>, <<a1, a2>>, <<a1, b1>>, <<a1, a2, a2, b1>>,
                  <<BadCitation>>, <<a1, BadCitation>>}
DiagnosticsPool == {NoneVal, Dict({}), Dict({"logs"}), Dict({"query", "suggestions", "summary"}),
                    Dict({"query", "logs", "queues"})}

\* The gate before any call.
GateIdle ==
    /\ answer = <<>>
    /\ citations = <<>>
    /\ diagnostics = NoneVal
    /\ report = NoneVal

\* RAGService before any question.
AskIdle ==
    /\ question = "plain"
    /\ search_found = FALSE
    /\ planned_response = NoneVal
    /\ tools_ran = FALSE
    /\ fault = FALSE
    /\ response = NoneVal

\* The retrieval pipeline before any call.
RetrievalIdle ==
    /\ faiss_metadata = <<>>
    /\ vector_raw = <<>>
    /\ bm25_raw = <<>>
    /\ top_k = 1
    /\ failure = "none"
    /\ retrieval_pc = "idle"
    /\ vector_results = <<>>
    /\ bm25_results = <<>>
    /\ merged_results = <<>>
    /\ final_results = <<>>

(***************************************************************************)
(* FAISSService values.  The FAISS index is the sequence of the chunk ids  *)
(* whose vectors it holds, in the order of index.add; self.index = None is *)
(* NoIndex.  A file carries its content and the number of the _save_index  *)
(* call that wrote it.                                                     *)
(***************************************************************************)
Instances == {1, 2}

NoIndex == [exists |-> FALSE, vectors |-> <<>>]
NoFile == [exists |-> FALSE, data |-> <<>>, save |-> 0]
NotLoaded == [read |-> FALSE, index_save |-> 0, metadata_save |-> 0]

\* Every FAISSService constructed over an empty index directory.
IndexIdle ==
    /\ index = [i \in Instances |-> NoIndex]
    /\ metadata = [i \in Instances |-> <<>>]
    /\ index_file = NoFile
    /\ metadata_file = NoFile
    /\ pc = [i \in Instances |-> "ready"]
    /\ save_id = [i \in Instances |-> 0]
    /\ saves = 0
    /\ loaded = [i \in Instances |-> NotLoaded]
    /\ last_call = [i \in Instances |-> "__init__"]

\* No document given to the DocumentProcessor yet (default configuration).
NoDocument == [filename |-> "", content |-> <<>>]
\* DocumentProcessor.__init__: CHUNK_SIZE and CHUNK_OVERLAP when the environment
\* sets neither.
default_chunk_size == 800
default_chunk_overlap == 100

ChunkIdle ==
    /\ chunk_size = default_chunk_size
    /\ chunk_overlap = default_chunk_overlap
    /\ watched = NoDocument
    /\ first_done = FALSE
    /\ first_chunks = <<>>
    /\ document = NoDocument
    /\ processed_chunks = <<>>
    /\ log = <<>>

\* The planner before any call.
PlanIdle ==
    /\ plan_chunks = <<>>
    /\ plan_fault = FALSE
    /\ plan = NoneVal

\* The database before any session is created.
SessionIdle ==
    /\ sessions = [s \in {} |-> NoneVal]
    /\ messages = <<>>
    /\ issued = {}
    /\ session_reply = NoneVal

\* The sectionizer before any document.
SectionIdle ==
    /\ section_title = {}
    /\ section_content = NoneVal
    /\ detected = NoneVal

\* No candidate list handed to the re-ranking and MMR steps yet.
MmrIdle ==
    /\ mmr_candidates = <<>>
    /\ cross_encoder = NoneVal
    /\ mmr_top_k = 1
    /\ mmr_selected = NoneVal

\* No document ingested yet.
IngestIdle ==
    /\ manifest = [f \in {} |-> NoneVal]
    /\ ingested = [f \in {} |-> NoneVal]
    /\ ingest_result = NoneVal
    /\ rag_seen = NoneVal
    /\ ingests = 0

\* No EmbeddingService in use.
EmbeddingIdle ==
    /\ environment = NoneVal
    /\ client = NoneVal
    /\ model = NoneVal
    /\ initialized = FALSE
    /\ embeddings = NoneVal
    /\ calls = 0

GateInit ==
    /\ answer \in SeqsUpTo(GateTokens, MaxAnswerLen)
    /\ citations \in CitationLists
    /\ diagnostics \in DiagnosticsPool
    /\ report = NoneVal
    /\ AskIdle
    /\ RetrievalIdle
    /\ IndexIdle
    /\ ChunkIdle
    /\ PlanIdle
    /\ SessionIdle
    /\ SectionIdle
    /\ MmrIdle
    /\ IngestIdle
    /\ EmbeddingIdle

\* check_answer_quality(answer, citations, diagnostics)
CheckAnswerQuality ==
    /\ report = NoneVal
    /\ report' = check_answer_quality(answer, citations, diagnostics)
    /\ UNCHANGED <<answer, citations, diagnostics>>
    /\ UNCHANGED exceptGate

\* A bullet or a numbered item is added to the answer, which is checked again.
AddItemAndCheck ==
    /\ report # NoneVal
    /\ Len(answer) < MaxAnswerLen
    /\ \E item \in {"BUL", "NUM", "CHK"}, i \in 1..(Len(answer) + 1) :
           /\ answer' = InsertAt(answer, i, item)
           /\ report' = check_answer_quality(answer', citations, diagnostics)
    /\ UNCHANGED <<citations, diagnostics>>
    /\ UNCHANGED exceptGate

\* A citation of a further distinct file is added, and the answer checked again.
AddCitationAndCheck ==
    /\ report # NoneVal
    /\ \E c \in CitationPool :
           /\ \A i \in 1..Len(citations) : citations[i].file # c.file
           /\ citations' = Append(citations, c)
           /\ report' = check_answer_quality(answer, citations', diagnostics)
    /\ UNCHANGED <<answer, diagnostics>>
    /\ UNCHANGED exceptGate

GateNext == CheckAnswerQuality \/ AddItemAndCheck \/ AddCitationAndCheck

SpecGate == GateInit /\ [][GateNext]_vars

WellTyped == \A i \in 1..Len(citations) : citations[i] # BadCitation

FourChecks == {"generic_phrases", "actionable", "evidence", "file_coverage"}
FailedChecks(r) == Range(r.issues) \cap FourChecks

\* C1: for every answer, citation list and diagnostics, passes_gate is true
\* exactly when none of the four checks fails (no banned phrase, at least 3
\* actionable bullets, evidence score at least 2, at least 2 distinct files),
\* and quality_score = -2*[banned] - [bullets < 3] - [evidence < 2] - [files < 2]:
\* never positive, and 0 exactly when the gate passes with no issue.
C1_GateDecision ==
    (report # NoneVal /\ WellTyped) =>
        LET m == report.metrics
            f1 == m.generic_phrases_found > 0
            f2 == m.actionable_bullets < 3
            f3 == m.evidence_score < 2
            f4 == Cardinality({citations[i].file : i \in 1..Len(citations)}) < 2
        IN  /\ m.distinct_files = Cardinality({citations[i].file : i \in 1..Len(citations)})
            /\ report.passes_gate <=> ~(f1 \/ f2 \/ f3 \/ f4)
            /\ report.quality_score = 0 - (IF f1 THEN 2 ELSE 0) - (IF f2 THEN 1 ELSE 0)
                                         - (IF f3 THEN 1 ELSE 0) - (IF f4 THEN 1 ELSE 0)
            /\ report.quality_score <= 0
            /\ (report.quality_score = 0) <=> (report.passes_gate /\ report.issues = <<>>)

\* A checked answer of full length that passes the gate.
C1_Witness ==
    /\ report # NoneVal /\ WellTyped /\ report.passes_gate
    /\ Len(answer) = MaxAnswerLen

\* C5: adding a citation of a further distinct file, or a bullet or numbered
\* item whose text matches no banned phrase, never makes a check fail that
\* passed before: the failed checks after the addition are a subset of those
\* before, and a passing answer stays passing.
C5_GateMonotone ==
    [][(report # NoneVal /\ report' # NoneVal /\ WellTyped)
          => /\ FailedChecks(report') \subseteq FailedChecks(report)
             /\ report.passes_gate => report'.passes_gate]_vars

\* C11: whenever the gate fails without an internal error, the message that
\* enforce_gate returns in place of the answer is the "Missing Context Detected"
\* message, never the "Answer Quality Issue Detected" one; its "Missing
\* Sections" line lists First Response/Diagnostics iff bullets < 3, Detailed
\* Diagnostics iff evidence < 2, Remediation/Fix Procedures iff files < 2 and
\* Specific Action Steps iff a banned phrase was found; and the three counts it
\* prints are the metrics of the quality report.
C11_MissingContextMessage ==
    (report # NoneVal /\ ~report.passes_gate /\ report.metrics # NoneVal) =>
        LET message == enforce_gate(answer, citations, diagnostics)[2]
            m == report.metrics
            listed(section) == section \in Range(message.sections)
        IN  /\ message = report.missing_context
            /\ message.kind = "missing_context"
            /\ message.sections # <<>>
            /\ listed("First Response/Diagnostics") <=> m.actionable_bullets < 3
            /\ listed("Detailed Diagnostics") <=> m.evidence_score < 2
            /\ listed("Remediation/Fix Procedures") <=> m.distinct_files < 2
            /\ listed("Specific Action Steps") <=> m.generic_phrases_found > 0
            /\ message.bullets = m.actionable_bullets
            /\ message.evidence = m.evidence_score
            /\ message.files = m.distinct_files

\* A failed report whose message lists two of the four sections and not the
\* other two.
C11_Witness ==
    /\ report # NoneVal /\ ~report.passes_gate /\ report.metrics # NoneVal
    /\ report.missing_context.sections
           = <<"First Response/Diagnostics", "Specific Action Steps">>

(***************************************************************************)
(* RAGService.ask_question.  The retrieval pipeline, the planner and the   *)
(* diagnostics service are its collaborators: what they return is drawn    *)
(* from bounded sets.                                                      *)
(*   question          "plain", or "banned" when it holds a banned phrase  *)
(*   search_found      the search results (after the keyword fallback) are *)
(*                     not empty                                           *)
(*   planned_response  the PlannedResponse of Planner.plan_response        *)
(*   tools_ran         DiagnosticsService ran a log tool                   *)
(*   fault             a collaborator raises after the search              *)
(***************************************************************************)
\* An ActionableBullet: content is "plain" or "banned" (it holds a banned phrase).
Bullet(content, source_file, chunk_id) ==
    [content |-> content, source_file |-> source_file, chunk_id |-> chunk_id]

\* PlannedResponse (has_fix and has_validate as plan_response sets them).
PlannedResponse(first_checks, why_explanation, fix_steps, validate_steps, sources) ==
    [first_checks |-> first_checks, why_explanation |-> why_explanation,
     fix_steps |-> fix_steps, validate_steps |-> validate_steps,
     sources |-> sources,
     has_fix |-> Len(fix_steps) > 0, has_validate |-> Len(validate_steps) > 0]

\* DiagnosticsService.run_diagnostics: always a dict with these six keys.
run_diagnostics == Dict({"query", "suggestions", "logs", "queues", "tools_ran", "summary"})

\* _format_diagnostics_block: a line per log service that was suggested, then a
\* line per truthy value among the other keys ("query" repeats the question,
\* "suggestions" is a dict and so always truthy).
format_diagnostics_block(q, ran) ==
    (IF ran THEN <<"BUL">> ELSE <<>>)
    \o <<IF q = "banned" THEN "BBN" ELSE "BUL">>
    \o <<"BUL">>
    \o (IF ran THEN <<"BUL", "BUL">> ELSE <<>>)

\* Group 1 of the bullet pattern ^\s*[•\-*]\s+(.+) on a line; "" when the
\* line is no bullet line.
bullet_text(line) ==
    CASE line = "* Check system load" -> "Check system load"
      [] line = "* Verify rate limit" -> "Verify rate limit"
      [] line = "* Restart nginx" -> "Restart nginx"
      [] line = "* Validate output" -> "Validate output"
      [] line = "* Run make install" -> "Run make install"
      [] line = "* See dashboard" -> "See dashboard"
      [] OTHER -> ""

\* The lines "• {bullet.content}" of a list of bullets.
BulletLines(bs) ==
    [k \in 1..Len(bs) |->
        IF bs[k].content = "banned" THEN "BBN"
        ELSE IF bullet_text(bs[k].content) # "" THEN "DBL"
        ELSE "BUL"]

\* _compose_answer_from_plan
compose_answer_from_plan(q, pr, ran) ==
    (IF pr.first_checks # <<>>
     THEN <<"FC">> \o BulletLines(pr.first_checks) \o <<"EMP">> ELSE <<>>)
    \o (IF pr.why_explanation # ""
        THEN <<"HDR", IF pr.why_explanation = "banned" THEN "BAN" ELSE "TXT", "EMP">> ELSE <<>>)
    \o (IF pr.has_fix /\ pr.fix_steps # <<>>
        THEN <<"FIX">> \o BulletLines(pr.fix_steps) \o <<"EMP">> ELSE <<>>)
    \o (IF pr.has_validate /\ pr.validate_steps # <<>>
        THEN <<"HDR">> \o BulletLines(pr.validate_steps) \o <<"EMP">> ELSE <<>>)
    \o (<<"HDR">> \o format_diagnostics_block(q, ran) \o <<"EMP">>)
    \o (IF pr.sources # <<>>
        THEN <<"HDR">> \o [k \in 1..Len(pr.sources) |-> "BUL"] ELSE <<>>)

\* str.strip() on the lines of a text: empty lines at both ends go.
RECURSIVE Strip(_)
Strip(a) ==
    IF a = <<>> THEN a
    ELSE IF Head(a) = "EMP" THEN Strip(Tail(a))
    ELSE IF a[Len(a)] = "EMP" THEN Strip(SubSeq(a, 1, Len(a) - 1))
    ELSE a

\* _clean_answer: a prompt prefix is cut from the start of the text (the
\* patterns are anchored with "^" and compiled without re.MULTILINE; the rest
\* of the first line stays), then the text is stripped.
clean_answer(a) ==
    Strip(IF a # <<>> /\ Head(a) = "PFX" THEN <<"TXT">> \o Tail(a) ELSE a)

\* _generate_citations_from_plan: one citation per bullet, without repeats.
RECURSIVE Dedupe(_)
Dedupe(cs) ==
    IF cs = <<>> THEN <<>>
    ELSE LET init == Dedupe(SubSeq(cs, 1, Len(cs) - 1))
             last == cs[Len(cs)]
         IN  IF last \in Range(init) THEN init ELSE Append(init, last)

generate_citations_from_plan(pr) ==
    LET all_bullets == pr.first_checks \o pr.fix_steps \o pr.validate_steps
    IN  Dedupe([k \in 1..Len(all_bullets) |->
                   Cite(all_bullets[k].source_file, all_bullets[k].chunk_id)])

\* _calculate_confidence_from_plan, in thousandths.
calculate_confidence_from_plan(pr) ==
    LET total_bullets == Len(pr.first_checks) + Len(pr.fix_steps) + Len(pr.validate_steps)
        base == Min(100 * total_bullets, 1000)
                + (IF pr.has_fix THEN 100 ELSE 0)
                + (IF pr.has_validate THEN 100 ELSE 0)
                + (IF Len(pr.sources) > 1 THEN Min(50 * Len(pr.sources), 200) ELSE 0)
    IN  IF total_bullets = 0 THEN 0 ELSE Max(0, Min(base, 1000))

\* The answer field of a response: a text, or one of the messages.
Text(lines) == [kind |-> "text", lines |-> lines]

\* _create_error_response
create_error_response(error_message) ==
    [answer |-> [kind |-> "error", message |-> error_message],
     citations |-> <<>>,
     confidence |-> 0,
     diagnostics |-> NoneVal,
     quality_gate |-> [passed |-> FALSE, score |-> -1, issues |-> <<error_message>>]]

\* "x if passes_gate else dropped" in the response dict.
gated_always(passes_gate, x, dropped) == x
gated(passes_gate, x, dropped) == IF passes_gate THEN x ELSE dropped

\* ask_question behind the search: diagnostics, composition, citations,
\* confidence, gate and the response dict.
answer_from_plan(q, pr, ran) ==
    LET diagnostics_results == run_diagnostics
        composed == compose_answer_from_plan(q, pr, ran)
        cleaned_answer == clean_answer(composed)
        final_citations == generate_citations_from_plan(pr)
        confidence == calculate_confidence_from_plan(pr)
        gate == enforce_gate(cleaned_answer, final_citations, diagnostics_results)
        passes_gate == gate[1]
        quality_report == gate[3]
    IN  [answer |-> IF passes_gate THEN Text(gate[2]) ELSE gate[2],
         citations |-> gated(passes_gate, final_citations, <<>>),
         confidence |-> gated(passes_gate, confidence, 0),
         diagnostics |-> gated(passes_gate, diagnostics_results, NoneVal),
         quality_gate |-> [passed |-> passes_gate,
                           score |-> quality_report.quality_score,
                           issues |-> quality_report.issues]]

\* ask_question: the search results are looked at before anything that may
\* raise is called.
ask_question_raise_first(q, found, pr, ran, raises) ==
    IF raises THEN create_error_response("Error processing question")
    ELSE IF ~found THEN create_error_response("No relevant information found")
    ELSE answer_from_plan(q, pr, ran)
ask_question(q, found, pr, ran, raises) ==
    IF ~found THEN create_error_response("No relevant information found")
    ELSE IF raises THEN create_error_response("Error processing question")
    ELSE answer_from_plan(q, pr, ran)

(***************************************************************************)
(* SpecAsk: one question is asked.                                         *)
(***************************************************************************)
MaxBullets == 2

p1 == Bullet("plain", "a.md", "c1")
p2 == Bullet("plain", "b.md", "c2")
p3 == Bullet("banned", "a.md", "")
BulletPool == {p1, p2, p3}
WhyPool == {"", "plain", "banned"}

\* Planner._clean_filename: the extension goes, the name is title-cased.
clean_filename(f) ==
    CASE f = "a.md" -> "A"
      [] f = "b.md" -> "B"
      [] f = "guide.md" -> "Guide"
      [] f = "README.md" -> "Readme"
      [] f = "tips.md" -> "Tips"

\* Planner._generate_sources_list: sorted(set of cleaned file names).
generate_sources_list(files) ==
    SelectSeq(<<"a.md", "b.md", "guide.md", "README.md", "tips.md">>, LAMBDA f : f \in files)

\* The plans plan_response can return: the sources are the files of all chunks
\* it was given, so they hold the file of every bullet.
Plans ==
    {PlannedResponse(fc, why, fix, val,
         LET all_bullets == fc \o fix \o val
             files == {all_bullets[k].source_file : k \in 1..Len(all_bullets)} \cup extra
             sorted == generate_sources_list(files)
         IN  [k \in 1..Len(sorted) |-> clean_filename(sorted[k])]) :
        fc \in SeqsUpTo(BulletPool, MaxBullets), why \in WhyPool,
        fix \in SeqsUpTo({p1, p2}, 1), val \in SeqsUpTo({p2}, 1),
        extra \in {{}, {"a.md"}}}

AskInit ==
    /\ question \in {"plain", "banned"}
    /\ search_found \in BOOLEAN
    /\ planned_response \in Plans
    /\ tools_ran \in BOOLEAN
    /\ fault \in BOOLEAN
    /\ response = NoneVal
    /\ GateIdle
    /\ RetrievalIdle
    /\ IndexIdle
    /\ ChunkIdle
    /\ PlanIdle
    /\ SessionIdle
    /\ SectionIdle
    /\ MmrIdle
    /\ IngestIdle
    /\ EmbeddingIdle

\* ask_question(question)
AskQuestion ==
    /\ response = NoneVal
    /\ response' = ask_question(question, search_found, planned_response, tools_ran, fault)
    /\ UNCHANGED <<question, search_found, planned_response, tools_ran, fault>>
    /\ UNCHANGED exceptAsk

AskNext == AskQuestion

SpecAsk == AskInit /\ [][AskNext]_vars

One == 100 * 100

ChunkIds == {"a1", "a2", "b1"}

\* The chunks of an index large enough for _merge_results to return more than
\* max_rerank_candidates candidates; the chunk at place i comes from one of
\* three files and four section types.
LargeIndexIds ==
    <<"c01", "c02", "c03", "c04", "c05", "c06", "c07", "c08", "c09", "c10", "c11", "c12",
      "c13", "c14", "c15", "c16", "c17", "c18", "c19", "c20", "c21", "c22", "c23", "c24">>

LargeIndexMeta(id) ==
    LET i == CHOOSE k \in 1..Len(LargeIndexIds) : LargeIndexIds[k] = id
    IN  [filename |-> <<"a.md", "b.md", "guide.md">>[(i % 3) + 1],
         section_type |-> <<"first_checks", "fix", "validate", "background">>[(i % 4) + 1],
         content_length |-> 100 * ((i % 5) + 1),
         has_commands |-> i % 2 = 0,
         has_metrics |-> i % 3 = 0]

\* chunk.metadata as IngestionService._process_chunks_with_embeddings fills it.
ChunkMeta ==
    [a1 |-> [filename |-> "a.md", section_type |-> "first_checks",
             content_length |-> 100, has_commands |-> TRUE, has_metrics |-> FALSE],
     a2 |-> [filename |-> "a.md", section_type |-> "fix",
             content_length |-> 200, has_commands |-> TRUE, has_metrics |-> FALSE],
     b1 |-> [filename |-> "b.md", section_type |-> "first_checks",
             content_length |-> 100, has_commands |-> FALSE, has_metrics |-> TRUE],
     \* the chunks of the runbook knowledge base (their content is ChunkContent)
     g1 |-> [filename |-> "guide.md", section_type |-> "first_checks",
             content_length |-> 55, has_commands |-> FALSE, has_metrics |-> TRUE],
     g2 |-> [filename |-> "guide.md", section_type |-> "fix",
             content_length |-> 19, has_commands |-> FALSE, has_metrics |-> FALSE],
     t1 |-> [filename |-> "tips.md", section_type |-> "first_checks",
             content_length |-> 10, has_commands |-> FALSE, has_metrics |-> FALSE],
     r1 |-> [filename |-> "README.md", section_type |-> "background",
             content_length |-> 53, has_commands |-> FALSE, has_metrics |-> FALSE]]
    @@ [id \in {LargeIndexIds[i] : i \in 1..Len(LargeIndexIds)} |-> LargeIndexMeta(id)]

\* __init__: weights in tenths, target_diversity
vector_weight == 6
bm25_weight == 4
mmr_lambda == 7
target_section_types == {"first_checks", "fix", "validate", "policy"}
min_section_coverage == 2

\* The chunks whose content holds a term that _rewrite_query_with_intent adds.
HintedChunks == {"a2"}

SimpleChunk(id, pos) == [id |-> id, kind |-> "obj", pos |-> pos]
MetadataEntry(id) == [id |-> id, kind |-> "dict", pos |-> 0]
Result(chunk, score) == [chunk |-> chunk, score |-> score]

Take(s, n) == SubSeq(s, 1, Min(n, Len(s)))
Reverse(s) == [k \in 1..Len(s) |-> s[Len(s) + 1 - k]]

\* list.sort(key=score, reverse=True): descending and stable.
RECURSIVE SortDesc(_)
SortDesc(s) ==
    IF s = <<>> THEN <<>>
    ELSE LET init == SortDesc(SubSeq(s, 1, Len(s) - 1))
             x == s[Len(s)]
             n == Cardinality({k \in 1..Len(init) : init[k].score >= x.score})
         IN  SubSeq(init, 1, n) \o <<x>> \o SubSeq(init, n + 1, Len(init))

\* np.argsort(scores): ascending, equal scores in index order.
RECURSIVE SortAsc(_)
SortAsc(s) ==
    IF s = <<>> THEN <<>>
    ELSE LET init == SortAsc(SubSeq(s, 1, Len(s) - 1))
             x == s[Len(s)]
             n == Cardinality({k \in 1..Len(init) : init[k].score <= x.score})
         IN  SubSeq(init, 1, n) \o <<x>> \o SubSeq(init, n + 1, Len(init))

MaxScore(s) == CHOOSE m \in {s[k].score : k \in 1..Len(s)} : \A k \in 1..Len(s) : s[k].score <= m
MinScore(s) == CHOOSE m \in {s[k].score : k \in 1..Len(s)} : \A k \in 1..Len(s) : s[k].score >= m

\* FAISSService.search: the k nearest entries of the index, best first, each
\* wrapped in a SimpleChunk; nothing when the index is not populated.
faiss_search(meta, vraw, k) ==
    IF meta = <<>> THEN <<>>
    ELSE Take(SortDesc([p \in 1..Len(meta) |-> Result(SimpleChunk(meta[p], p), vraw[meta[p]])]),
              Min(k, Len(meta)))

\* _vector_search: the query embedding, the FAISS search, min-max normalisation.
vector_search(meta, vraw, k, embed_ok) ==
    IF ~embed_ok THEN <<>>
    ELSE LET search_results == faiss_search(meta, vraw, k)
         IN  IF search_results = <<>> THEN <<>>
             ELSE LET max_score == MaxScore(search_results)
                      min_score == MinScore(search_results)
                      score_range == IF max_score # min_score THEN max_score - min_score ELSE 1
                  IN  [i \in 1..Len(search_results) |->
                          Result(search_results[i].chunk,
                                 ((search_results[i].score - min_score) * One) \div score_range)]

\* _bm25_search over faiss_service.metadata.
bm25_search(meta, braw, k, hinted) ==
    IF meta = <<>> THEN <<>>
    ELSE LET scores == [p \in 1..Len(meta) |->
                           Result(MetadataEntry(meta[p]),
                                  braw[meta[p]]
                                  + (IF hinted /\ meta[p] \in HintedChunks THEN 1 ELSE 0))]
             top == Take(Reverse(SortAsc(scores)), k)
             max_score == MaxScore(scores)
         IN  [i \in 1..Len(top) |->
                 Result(top[i].chunk,
                        IF max_score > 0
                        THEN Min((top[i].score * One) \div max_score, One)
                        ELSE 0)]

\* _get_chunk_id: chunk.get('chunk_id') or chunk.get('id') for a dict, chunk.id
\* for an object: the id in both cases.
get_chunk_id(chunk) == chunk.id

\* Position of the entry of merged_map with this key; 0 if there is none.
MapIndex(map, id) ==
    IF \E k \in 1..Len(map) : map[k].chunk_id = id
    THEN CHOOSE k \in 1..Len(map) : map[k].chunk_id = id
    ELSE 0

\* "for chunk, score in vector_results: merged_map[chunk_id] = {...}"
\* (a dict keeps the place of a key that is assigned again).
RECURSIVE AddVectorResults(_, _)
AddVectorResults(map, rs) ==
    IF rs = <<>> THEN map
    ELSE LET r == Head(rs)
             e == [chunk_id |-> get_chunk_id(r.chunk), chunk |-> r.chunk,
                   score |-> (r.score * vector_weight) \div 10]
             k == MapIndex(map, e.chunk_id)
         IN  AddVectorResults(IF k = 0 THEN Append(map, e) ELSE [map EXCEPT ![k] = e],
                              Tail(rs))

\* "for chunk, score in bm25_results: ... combined_score += score * bm25_weight"
RECURSIVE AddBM25Results(_, _)
AddBM25Results(map, rs) ==
    IF rs = <<>> THEN map
    ELSE LET r == Head(rs)
             id == get_chunk_id(r.chunk)
             add == (r.score * bm25_weight) \div 10
             k == MapIndex(map, id)
         IN  AddBM25Results(
                 IF k = 0
                 THEN Append(map, [chunk_id |-> id, chunk |-> r.chunk, score |-> add])
                 ELSE [map EXCEPT ![k].score = @ + add],
                 Tail(rs))

\* The except branch of _merge_results.
merge_failure_default(vs, k) == Take(vs, k)

\* _merge_results
merge_results(vs, bs, k, merge_ok) ==
    IF ~merge_ok THEN merge_failure_default(vs, k)
    ELSE LET merged_list == SortDesc(AddBM25Results(AddVectorResults(<<>>, vs), bs))
         IN  [i \in 1..Min(k, Len(merged_list)) |->
                 Result(merged_list[i].chunk, merged_list[i].score)]

\* _extract_chunk_features: a dict is read at its top level, where a metadata
\* entry holds none of the five keys; an object through chunk.metadata.
extract_chunk_features(chunk) ==
    IF chunk.kind = "dict"
    THEN [filename |-> "", section_type |-> "unknown", content_length |-> 0,
          has_commands |-> FALSE, has_metrics |-> FALSE]
    ELSE ChunkMeta[chunk.id]

\* _calculate_feature_similarity (total_weight is 1.0)
calculate_feature_similarity(f1, f2) ==
    LET length_diff == IF f1.content_length >= f2.content_length
                       THEN f1.content_length - f2.content_length
                       ELSE f2.content_length - f1.content_length
        max_length == Max(f1.content_length, f2.content_length)
    IN  (IF f1.filename = f2.filename THEN (4 * One) \div 10 ELSE 0)
        + (IF f1.section_type = f2.section_type THEN (3 * One) \div 10 ELSE 0)
        + (IF max_length > 0
           THEN ((One \div 10) * (max_length - length_diff)) \div max_length ELSE 0)
        + (IF f1.has_commands = f2.has_commands THEN One \div 10 ELSE 0)
        + (IF f1.has_metrics = f2.has_metrics THEN One \div 10 ELSE 0)

\* _calculate_diversity
calculate_diversity(chunk, selected) ==
    IF selected = <<>> THEN One
    ELSE LET sims == {calculate_feature_similarity(extract_chunk_features(chunk),
                                                   extract_chunk_features(selected[k].chunk)) :
                          k \in 1..Len(selected)}
             max_similarity == CHOOSE m \in sims : \A x \in sims : x <= m
         IN  Max(0, One - max_similarity)

\* The while loop of _mmr_diversity_selection.
RECURSIVE MMRLoop(_, _, _)
MMRLoop(selected, remaining, k) ==
    IF ~(Len(selected) < k /\ remaining # <<>>) THEN selected
    ELSE LET mmr_scores == [i \in 1..Len(remaining) |->
                               [chunk |-> remaining[i].chunk, rel |-> remaining[i].score,
                                score |-> mmr_lambda * remaining[i].score
                                          + (10 - mmr_lambda)
                                            * calculate_diversity(remaining[i].chunk, selected)]]
             best == SortDesc(mmr_scores)[1]
         IN  MMRLoop(Append(selected, Result(best.chunk, best.rel)),
                     SelectSeq(remaining, LAMBDA r : r.chunk # best.chunk),
                     k)

\* A selection that hands every candidate on.
mmr_every_candidate(candidates, k, mmr_ok) == candidates

\* _mmr_diversity_selection
mmr_diversity_selection(candidates, k, mmr_ok) ==
    IF Len(candidates) <= k THEN candidates
    ELSE IF ~mmr_ok THEN Take(candidates, k)
    ELSE MMRLoop(<<Head(candidates)>>, Tail(candidates), k)

\* The first pass of _enforce_diversity_constraints over results[i..]:
\* <<diverse_results, current_files, current_section_types>>.
RECURSIVE FirstPass(_, _, _, _, _, _)
FirstPass(results, i, k, diverse, files, types) ==
    IF i > Len(results) THEN diverse
    ELSE LET features == extract_chunk_features(results[i].chunk)
             improves_diversity ==
                 \/ features.filename \notin files
                 \/ /\ features.section_type \in target_section_types
                    /\ features.section_type \notin types
         IN  IF improves_diversity \/ Len(diverse) < min_section_coverage
             THEN IF Len(diverse) + 1 >= k
                  THEN Append(diverse, results[i])
                  ELSE FirstPass(results, i + 1, k, Append(diverse, results[i]),
                                 files \cup {features.filename},
                                 types \cup {features.section_type})
             ELSE FirstPass(results, i + 1, k, diverse, files, types)

\* _enforce_diversity_constraints
enforce_diversity_constraints(results, k, enforce_ok) ==
    IF ~enforce_ok THEN Take(results, k)
    ELSE IF Len(results) <= k THEN results
    ELSE LET diverse_results == FirstPass(results, 1, k, <<>>, {}, {})
             remaining_results == SelectSeq(results, LAMBDA r : r \notin Range(diverse_results))
         IN  diverse_results \o Take(remaining_results, k - Len(diverse_results))

\* _fallback_vector_search
fallback_none(meta, vraw, k, embed_ok) == <<>>
fallback_vector_search(meta, vraw, k, embed_ok) == vector_search(meta, vraw, k, embed_ok)

(***************************************************************************)
(* failure names what goes wrong during the call:                          *)
(*   "rewrite"  _rewrite_query_with_intent raises: the query stays as is   *)
(*   "embed"    EmbeddingService fails: no embedding of the query          *)
(*   "bm25"     _bm25_search raises                                        *)
(*   "merge"    _merge_results raises                                      *)
(*   "mmr"      _mmr_diversity_selection raises in its loop                *)
(*   "enforce"  _enforce_diversity_constraints raises                      *)
(*   "outer"    an exception escapes inside retrieve_diverse_results       *)
(*   "outer_embed"  the same, and EmbeddingService fails too               *)
(***************************************************************************)
Failures == {"none", "rewrite", "embed", "bm25", "merge", "mmr", "enforce",
             "outer", "outer_embed"}

\* Steps 2 to 4 of retrieve_diverse_results.
StageVector(meta, vraw, k, f) == vector_search(meta, vraw, k * 2, f # "embed")
StageBM25(meta, braw, k, f) ==
    IF f = "bm25" THEN <<>> ELSE bm25_search(meta, braw, k * 2, f # "rewrite")
StageMerge(meta, vraw, braw, k, f) ==
    merge_results(StageVector(meta, vraw, k, f), StageBM25(meta, braw, k, f),
                  k * 3, f # "merge")

\* retrieve_diverse_results (cross_encoder_available is False)
retrieve_diverse_results(meta, vraw, braw, k, f) ==
    IF f \in {"outer", "outer_embed"}
    THEN fallback_vector_search(meta, vraw, k, f # "outer_embed")
    ELSE LET merged == StageMerge(meta, vraw, braw, k, f)
             diverse == mmr_diversity_selection(merged, k, f \notin {"mmr", "embed"})
         IN  enforce_diversity_constraints(diverse, k, f # "enforce")

(***************************************************************************)
(* SpecRetrieval: one call of retrieve_diverse_results on a knowledge base *)
(* of up to MaxIndex entries (upsert_chunks appends, so a chunk may be     *)
(* stored more than once).                                                 *)
(***************************************************************************)
MaxIndex == 3
MaxRaw == 1
MaxTopK == 2

RetrievalInit ==
    /\ faiss_metadata \in SeqsUpTo(ChunkIds, MaxIndex)
    /\ vector_raw \in [ChunkIds -> 0..MaxRaw]
    /\ bm25_raw \in [ChunkIds -> 0..1]
    /\ top_k \in 1..MaxTopK
    /\ failure \in Failures
    /\ retrieval_pc = "called"
    /\ vector_results = <<>>
    /\ bm25_results = <<>>
    /\ merged_results = <<>>
    /\ final_results = <<>>
    /\ GateIdle
    /\ AskIdle
    /\ IndexIdle
    /\ ChunkIdle
    /\ PlanIdle
    /\ SessionIdle
    /\ SectionIdle
    /\ MmrIdle
    /\ IngestIdle
    /\ EmbeddingIdle

\* retrieve_diverse_results(query, faiss_service, top_k)
RetrieveDiverseResults ==
    /\ retrieval_pc = "called"
    /\ retrieval_pc' = "returned"
    /\ vector_results' =
           IF failure \in {"outer", "outer_embed"} THEN <<>>
           ELSE StageVector(faiss_metadata, vector_raw, top_k, failure)
    /\ bm25_results' =
           IF failure \in {"outer", "outer_embed"} THEN <<>>
           ELSE StageBM25(faiss_metadata, bm25_raw, top_k, failure)
    /\ merged_results' =
           IF failure \in {"outer", "outer_embed"} THEN <<>>
           ELSE StageMerge(faiss_metadata, vector_raw, bm25_raw, top_k, failure)
    /\ final_results' =
           retrieve_diverse_results(faiss_metadata, vector_raw, bm25_raw, top_k, failure)
    /\ UNCHANGED <<faiss_metadata, vector_raw, bm25_raw, top_k, failure>>
    /\ UNCHANGED exceptRetrieval

RetrievalNext == RetrieveDiverseResults

SpecRetrieval == RetrievalInit /\ [][RetrievalNext]_vars

\* The files and the section types the chunks of a result list come from.
FilesOf(rs) == {ChunkMeta[rs[i].chunk.id].filename : i \in 1..Len(rs)}
SectionTypesOf(rs) == {ChunkMeta[rs[i].chunk.id].section_type : i \in 1..Len(rs)}

\* The score a list gives to a chunk id; 0 when the chunk is missing from it.
ScoreOf(rs, id) ==
    IF \E k \in 1..Len(rs) : rs[k].chunk.id = id
    THEN rs[CHOOSE k \in 1..Len(rs) : rs[k].chunk.id = id].score
    ELSE 0

\* C3: diversity invariant.  For an index whose chunks come from at least 2
\* files and top_k >= 2, a result of at least 2 chunks never comes from one
\* file only.
C3_DiversityInvariant ==
    (/\ retrieval_pc = "returned" /\ failure = "none"
     /\ Cardinality({ChunkMeta[faiss_metadata[p]].filename : p \in 1..Len(faiss_metadata)}) >= 2
     /\ top_k >= 2
     /\ Len(final_results) >= 2)
        => Cardinality(FilesOf(final_results)) >= 2

\* C4: fusion bounds.  Every candidate returned by _merge_results has the
\* combined score 0.6 * vector_score + 0.4 * bm25_score of its chunk (0 for a
\* side the chunk is missing from), which lies within [0, 1]; also when the
\* index holds several entries with one chunk id.
C4_FusionBounds ==
    (retrieval_pc = "returned" /\ failure = "none") =>
        \A i \in 1..Len(merged_results) :
            LET id == merged_results[i].chunk.id
            IN  /\ merged_results[i].score =
                       (vector_weight * ScoreOf(vector_results, id)
                        + bm25_weight * ScoreOf(bm25_results, id)) \div 10
                /\ merged_results[i].score >= 0
                /\ merged_results[i].score <= One

C10_SectionCoverage ==
    (/\ retrieval_pc = "returned" /\ failure = "none"
     /\ top_k >= 2
     /\ Cardinality(SectionTypesOf(merged_results)) >= 2)
        => Cardinality(SectionTypesOf(final_results)) >= 2

(***************************************************************************)
(* FAISSService.  Each instance keeps its own index and metadata in        *)
(* memory; all instances read and write the same two files,                *)
(* faiss_index.bin and metadata.pkl.  pc[i] is where instance i stands:    *)
(*   "ready"           between calls                                       *)
(*   "load"            in __init__, about to run _load_index               *)
(*   "load_metadata"   in _load_index, index read, metadata not yet        *)
(*   "write_index"     in _save_index, nothing written yet                 *)
(*   "write_metadata"  in _save_index, index written, metadata not yet     *)
(***************************************************************************)
MaxVectors == 2
MaxChunks == 1
MaxSaves == 3

\* faiss.IndexFlatIP(self.dimension)
NewIndex == [exists |-> TRUE, vectors |-> <<>>]

\* ensure_index: the index it leaves in self.index
ensure_index_wipe(idx) == NewIndex
ensure_index(idx) == IF idx.exists THEN idx ELSE NewIndex

\* is_index_populated
is_index_populated(idx, md) == idx.exists /\ Len(idx.vectors) > 0 /\ Len(md) > 0

\* FAISSService(): a new instance takes the place of instance i.
Construct(i) ==
    /\ index' = [index EXCEPT ![i] = NoIndex]
    /\ metadata' = [metadata EXCEPT ![i] = <<>>]
    /\ loaded' = [loaded EXCEPT ![i] = NotLoaded]
    /\ save_id' = [save_id EXCEPT ![i] = 0]
    /\ pc' = [pc EXCEPT ![i] = "load"]
    /\ last_call' = [last_call EXCEPT ![i] = "__init__"]
    /\ UNCHANGED <<index_file, metadata_file, saves>>
    /\ UNCHANGED exceptIndex

\* The process of instance i ends between two calls and is started again.
Restart(i) ==
    /\ pc[i] = "ready"
    /\ Construct(i)

\* The process of instance i dies inside _load_index or _save_index and is
\* started again.
Crash(i) ==
    /\ pc[i] # "ready"
    /\ Construct(i)

\* _load_index, up to faiss.read_index
LoadIndex(i) ==
    /\ pc[i] = "load"
    /\ IF index_file.exists /\ metadata_file.exists
       THEN /\ index' = [index EXCEPT ![i] = [exists |-> TRUE, vectors |-> index_file.data]]
            /\ loaded' = [loaded EXCEPT ![i].index_save = index_file.save]
            /\ pc' = [pc EXCEPT ![i] = "load_metadata"]
       ELSE /\ pc' = [pc EXCEPT ![i] = "ready"]
            /\ UNCHANGED <<index, loaded>>
    /\ UNCHANGED <<metadata, index_file, metadata_file, save_id, saves, last_call>>
    /\ UNCHANGED exceptIndex

\* _load_index, pickle.load of the metadata file
LoadMetadata(i) ==
    /\ pc[i] = "load_metadata"
    /\ metadata' = [metadata EXCEPT ![i] = metadata_file.data]
    /\ loaded' = [loaded EXCEPT ![i].metadata_save = metadata_file.save, ![i].read = TRUE]
    /\ pc' = [pc EXCEPT ![i] = "ready"]
    /\ UNCHANGED <<index, index_file, metadata_file, save_id, saves, last_call>>
    /\ UNCHANGED exceptIndex

\* ensure_index()
EnsureIndex(i) ==
    /\ pc[i] = "ready"
    /\ index' = [index EXCEPT ![i] = ensure_index(@)]
    /\ last_call' = [last_call EXCEPT ![i] = "ensure_index"]
    /\ UNCHANGED <<metadata, index_file, metadata_file, pc, save_id, saves, loaded>>
    /\ UNCHANGED exceptIndex

\* upsert_chunks(chunks), up to the call of _save_index; chunks are objects
\* with an embedding.  An empty list returns False and changes nothing.
UpsertChunks(i) ==
    /\ pc[i] = "ready"
    /\ saves < MaxSaves
    /\ \E chunks \in SeqsUpTo(ChunkIds, MaxChunks) :
           /\ Len(index[i].vectors) + Len(chunks) <= MaxVectors
           /\ Len(metadata[i]) + Len(chunks) <= MaxVectors
           /\ IF chunks = <<>>
              THEN UNCHANGED <<index, metadata, pc, save_id, saves>>
              ELSE /\ index' = [index EXCEPT ![i] =
                                   [exists |-> TRUE,
                                    vectors |-> ensure_index(@).vectors \o chunks]]
                   /\ metadata' = [metadata EXCEPT ![i] = @ \o chunks]
                   /\ saves' = saves + 1
                   /\ save_id' = [save_id EXCEPT ![i] = saves + 1]
                   /\ pc' = [pc EXCEPT ![i] = "write_index"]
    /\ last_call' = [last_call EXCEPT ![i] = "upsert_chunks"]
    /\ UNCHANGED <<index_file, metadata_file, loaded>>
    /\ UNCHANGED exceptIndex

\* save_index(), up to the first write of _save_index
SaveIndex(i) ==
    /\ pc[i] = "ready"
    /\ saves < MaxSaves
    /\ saves' = saves + 1
    /\ save_id' = [save_id EXCEPT ![i] = saves + 1]
    /\ pc' = [pc EXCEPT ![i] = "write_index"]
    /\ last_call' = [last_call EXCEPT ![i] = "save_index"]
    /\ UNCHANGED <<index, metadata, index_file, metadata_file, loaded>>
    /\ UNCHANGED exceptIndex

\* _save_index: "if self.index is not None: faiss.write_index(...)"
WriteIndexFile(i) ==
    /\ pc[i] = "write_index"
    /\ index_file' = IF index[i].exists
                     THEN [exists |-> TRUE, data |-> index[i].vectors, save |-> save_id[i]]
                     ELSE index_file
    /\ pc' = [pc EXCEPT ![i] = "write_metadata"]
    /\ UNCHANGED <<index, metadata, metadata_file, save_id, saves, loaded, last_call>>
    /\ UNCHANGED exceptIndex

\* _save_index: "pickle.dump(self.metadata, f)"
WriteMetadataFile(i) ==
    /\ pc[i] = "write_metadata"
    /\ metadata_file' = [exists |-> TRUE, data |-> metadata[i], save |-> save_id[i]]
    /\ pc' = [pc EXCEPT ![i] = "ready"]
    /\ UNCHANGED <<index, metadata, index_file, save_id, saves, loaded, last_call>>
    /\ UNCHANGED exceptIndex

IndexInit ==
    /\ IndexIdle
    /\ ChunkIdle
    /\ GateIdle
    /\ AskIdle
    /\ RetrievalIdle
    /\ PlanIdle
    /\ SessionIdle
    /\ SectionIdle
    /\ MmrIdle
    /\ IngestIdle
    /\ EmbeddingIdle

(***************************************************************************)
(* SpecCrash: one process that ingests, saves, is stopped or killed at any *)
(* point and started again.                                                *)
(***************************************************************************)
CrashNext ==
    \/ UpsertChunks(1)
    \/ SaveIndex(1)
    \/ WriteIndexFile(1)
    \/ WriteMetadataFile(1)
    \/ EnsureIndex(1)
    \/ Restart(1)
    \/ Crash(1)
    \/ LoadIndex(1)
    \/ LoadMetadata(1)

SpecCrash == IndexInit /\ [][CrashNext]_vars

(***************************************************************************)
(* SpecConc: two instances in two processes (the API and the ingestion     *)
(* script, or two workers) over one index directory; no process is killed. *)
(***************************************************************************)
ConcNext ==
    \E i \in Instances :
        \/ UpsertChunks(i)
        \/ SaveIndex(i)
        \/ WriteIndexFile(i)
        \/ WriteMetadataFile(i)
        \/ EnsureIndex(i)
        \/ Restart(i)
        \/ LoadIndex(i)
        \/ LoadMetadata(i)

SpecConc == IndexInit /\ [][ConcNext]_vars

\* One metadata entry per stored vector, position by position.
Consistent(idx, md) == IF idx.exists THEN idx.vectors = md ELSE md = <<>>

\* C6: the index is never partially corrupted.  Whenever an instance is between
\* calls (after any upsert_chunks, save_index, crash, restart and _load_index),
\* its index holds exactly one metadata entry per stored vector, position by
\* position; also after a save that was interrupted between its two writes.
C6_NeverPartiallyCorrupted ==
    \A i \in Instances : pc[i] = "ready" => Consistent(index[i], metadata[i])

\* C7: a load never observes a partially written index.  The index file and the
\* metadata file that one _load_index read were written by one and the same
\* _save_index call.
C7_LoadsOneSnapshot ==
    \A i \in Instances :
        (pc[i] = "ready" /\ loaded[i].read) =>
            loaded[i].index_save = loaded[i].metadata_save

\* C8: ensure_index never destroys existing content.  A call leaves the stored
\* vectors, the metadata and both files as they were, leaves an existing index
\* object in place and creates an empty one only when there was none, and an
\* index that was populated before the call is populated after it.
C8_EnsureIndexPreserves ==
    [][\A i \in Instances :
           EnsureIndex(i) =>
               /\ index'[i].vectors = index[i].vectors
               /\ metadata' = metadata
               /\ index_file' = index_file /\ metadata_file' = metadata_file
               /\ index[i].exists => index'[i] = index[i]
               /\ ~index[i].exists => index'[i] = NewIndex
               /\ is_index_populated(index[i], metadata[i])
                      => is_index_populated(index'[i], metadata'[i])]_vars

\* ensure_index has just returned on an instance whose index is populated.
C8_Witness ==
    \E i \in Instances :
        /\ last_call[i] = "ensure_index"
        /\ pc[i] = "ready"
        /\ is_index_populated(index[i], metadata[i])

(***************************************************************************)
(* DocumentProcessor and Sectionizer.  A document is a filename and its    *)
(* content, the sequence of its lines (content.split('\n')); line numbers  *)
(* count from 0 as in the code.  The lines are:                            *)
(*   "# First Checks", "# Fix"   markdown headings                         *)
(*   "* check cpu"               a bullet line                             *)
(*   "paragraph"                 400 characters of running text            *)
(*   ""                          an empty line                             *)
(***************************************************************************)
DocLines == {"# First Checks", "# Fix", "* check cpu", "paragraph", ""}

\* len(line)
LineLen(line) ==
    CASE line = "# First Checks" -> 14
      [] line = "# Fix" -> 5
      [] line = "* check cpu" -> 11
      [] line = "paragraph" -> 400
      [] line = "" -> 0

\* DocumentProcessor._is_heading
is_heading(line) == line \in {"# First Checks", "# Fix"}

\* Sectionizer._detect_heading: whether the line is a heading
detect_heading(line) == line \in {"# First Checks", "# Fix"}

\* Sectionizer._classify_section of the title of a heading line (neither type
\* is changed by _refine_section_type)
classify_section(line) == IF line = "# First Checks" THEN "first_checks" ELSE "fix"

\* The elements of a set of numbers in ascending order.
RECURSIVE Ascending(_)
Ascending(S) ==
    IF S = {} THEN <<>>
    ELSE LET m == CHOOSE x \in S : \A y \in S : x <= y
         IN  <<m>> \o Ascending(S \ {m})

\* Sectionizer.detect_sections: a section from each heading to the line before
\* the next heading, or to the last line.
detect_sections(lines) ==
    LET starts == Ascending({n \in 0..(Len(lines) - 1) : detect_heading(lines[n + 1])})
    IN  [k \in 1..Len(starts) |->
            [title |-> lines[starts[k] + 1],
             section_type |-> classify_section(lines[starts[k] + 1]),
             start_line |-> starts[k],
             end_line |-> IF k < Len(starts) THEN starts[k + 1] - 1 ELSE Len(lines) - 1]]

\* _create_section_line_map, read at one line: the sections that hold the line
\* (one at most).
section_line_map(sections, line_num) ==
    {k \in 1..Len(sections) :
         sections[k].start_line <= line_num /\ line_num <= sections[k].end_line}

\* _get_chunk_sections: the sections the chunk overlaps, in the order its lines
\* meet them.
RECURSIVE get_chunk_sections(_, _, _)
get_chunk_sections(line_numbers, sections, seen) ==
    IF line_numbers = <<>> THEN <<>>
    ELSE LET here == section_line_map(sections, Head(line_numbers)) \ seen
         IN  [k \in 1..Cardinality(here) |-> sections[Ascending(here)[k]]]
             \o get_chunk_sections(Tail(line_numbers), sections, seen \cup here)

\* _get_primary_section: None for no section; else the first section of the
\* most common section type (max keeps the first of equal counts).
get_primary_section(chunk_sections) ==
    IF chunk_sections = <<>> THEN NoneVal
    ELSE IF Len(chunk_sections) = 1 THEN chunk_sections[1]
    ELSE LET count(k) == Cardinality({j \in 1..Len(chunk_sections) :
                             chunk_sections[j].section_type = chunk_sections[k].section_type})
             first == CHOOSE k \in 1..Len(chunk_sections) :
                          /\ \A j \in 1..Len(chunk_sections) : count(j) <= count(k)
                          /\ \A j \in 1..(k - 1) : count(j) < count(k)
         IN  chunk_sections[first]

\* len('\n'.join(chunk_lines))
RECURSIVE JoinedLen(_, _)
JoinedLen(lines, line_numbers) ==
    IF line_numbers = <<>> THEN 0
    ELSE LineLen(lines[Head(line_numbers) + 1])
         + (IF Len(line_numbers) > 1 THEN 1 ELSE 0)
         + JoinedLen(lines, Tail(line_numbers))

\* chunk_id = f"{filename}_{start_line}_{end_line}"
chunk_id_numbered(filename, start_line, end_line) == <<filename, start_line + Len(log), end_line>>
chunk_id(filename, start_line, end_line) == <<filename, start_line, end_line>>

\* _create_chunk_data
create_chunk_data(lines, line_numbers, start_line, end_line, filename) ==
    LET chunk_sections == get_chunk_sections(line_numbers, detect_sections(lines), {})
        primary_section == get_primary_section(chunk_sections)
    IN  [id |-> chunk_id(filename, start_line, end_line),
         content |-> [k \in 1..Len(line_numbers) |-> lines[line_numbers[k] + 1]],
         line_numbers |-> line_numbers,
         start_line |-> start_line,
         end_line |-> end_line,
         content_length |-> JoinedLen(lines, line_numbers),
         sections |-> chunk_sections,
         primary_type |-> IF primary_section # NoneVal
                          THEN primary_section.section_type ELSE "unknown"]

\* _should_create_chunk (reading all_lines[current_line + 1] at the last line
\* raises, and the except branch returns False)
should_create_chunk(lines, line_numbers, current_line, size) ==
    \/ JoinedLen(lines, line_numbers) >= size
    \/ /\ current_line + 1 < Len(lines)
       /\ is_heading(lines[current_line + 2])

\* _get_overlap_lines: the line numbers the next chunk starts with
get_overlap_lines(line_numbers, overlap) ==
    IF Len(line_numbers) <= overlap THEN line_numbers
    ELSE SubSeq(line_numbers, Len(line_numbers) - overlap + 1, Len(line_numbers))

\* The loop of _generate_chunks_with_sections from line line_num on, and the
\* final chunk.
RECURSIVE ChunkLoop(_, _, _, _, _, _, _, _)
ChunkLoop(lines, line_num, current, chunk_start_line, out, filename, size, overlap) ==
    IF line_num = Len(lines)
    THEN IF current # <<>>
         THEN Append(out, create_chunk_data(lines, current, chunk_start_line,
                                            Len(lines) - 1, filename))
         ELSE out
    ELSE LET current_chunk_lines == Append(current, line_num)
         IN  IF should_create_chunk(lines, current_chunk_lines, line_num, size)
             THEN LET overlap_lines == get_overlap_lines(current_chunk_lines, overlap)
                  IN  ChunkLoop(lines, line_num + 1, overlap_lines, overlap_lines[1],
                                Append(out, create_chunk_data(lines, current_chunk_lines,
                                                              chunk_start_line, line_num,
                                                              filename)),
                                filename, size, overlap)
             ELSE ChunkLoop(lines, line_num + 1, current_chunk_lines, chunk_start_line,
                            out, filename, size, overlap)

\* _generate_chunks_with_sections
generate_chunks_with_sections(lines, filename, size, overlap) ==
    ChunkLoop(lines, 0, <<>>, 0, <<>>, filename, size, overlap)

\* process_document: the chunks
process_document(doc, size, overlap) ==
    generate_chunks_with_sections(doc.content, doc.filename, size, overlap)

(***************************************************************************)
(* SpecChunk: one DocumentProcessor, configured from the environment, that *)
(* processes the watched document and other documents in any order.        *)
(***************************************************************************)
MaxLines == 4
MaxRuns == 3

ChunkSizes == {20, default_chunk_size}
ChunkOverlaps == {1, default_chunk_overlap}

Documents == {[filename |-> "a.md", content |-> c] : c \in SeqsUpTo(DocLines, MaxLines) \ {<<>>}}
OtherDocuments == {[filename |-> "a.md", content |-> <<"# Fix", "* check cpu">>],
                   [filename |-> "b.md", content |-> <<"paragraph", "paragraph", "">>]}

ChunkInit ==
    /\ chunk_size \in ChunkSizes
    /\ chunk_overlap \in ChunkOverlaps
    /\ watched \in Documents
    /\ first_done = FALSE
    /\ first_chunks = <<>>
    /\ document = NoDocument
    /\ processed_chunks = <<>>
    /\ log = <<>>
    /\ GateIdle
    /\ AskIdle
    /\ RetrievalIdle
    /\ IndexIdle
    /\ PlanIdle
    /\ SessionIdle
    /\ SectionIdle
    /\ MmrIdle
    /\ IngestIdle
    /\ EmbeddingIdle

\* process_document(watched.filename, watched.content)
ProcessWatched ==
    /\ Len(log) < MaxRuns
    /\ document' = watched
    /\ processed_chunks' = process_document(watched, chunk_size, chunk_overlap)
    /\ first_done' = TRUE
    /\ first_chunks' = IF first_done THEN first_chunks ELSE processed_chunks'
    /\ log' = Append(log, "watched")
    /\ UNCHANGED <<chunk_size, chunk_overlap, watched>>
    /\ UNCHANGED exceptChunk

\* process_document of another document
ProcessOther ==
    /\ Len(log) < MaxRuns
    /\ \E d \in OtherDocuments \ {watched} :
           /\ document' = d
           /\ processed_chunks' = process_document(d, chunk_size, chunk_overlap)
    /\ log' = Append(log, "other")
    /\ UNCHANGED <<chunk_size, chunk_overlap, watched, first_done, first_chunks>>
    /\ UNCHANGED exceptChunk

ChunkNext == ProcessWatched \/ ProcessOther

SpecChunk == ChunkInit /\ [][ChunkNext]_vars

\* The chunks on hand are those of the watched document.
WatchedProcessed == log # <<>> /\ log[Len(log)] = "watched"

SectionTypes == {"first_checks", "fix", "validate", "policy", "gotchas", "background"}

\* C13: every chunk maps to exactly one primary section and carries a
\* section_type among first_checks, fix, validate, policy, gotchas, background;
\* also a chunk of lines before the first heading, and the chunks of a document
\* without a heading.
C13_PrimarySection ==
    WatchedProcessed =>
        \A k \in 1..Len(processed_chunks) :
            processed_chunks[k].primary_type \in SectionTypes

\* C14: chunks are bounded by the size budget.  No chunk is larger than
\* chunk_size plus the size of the last line added to it; also a chunk that
\* starts with the overlap of its predecessor.
C14_ChunkSizeBound ==
    WatchedProcessed =>
        \A k \in 1..Len(processed_chunks) :
            LET c == processed_chunks[k]
            IN  c.content_length <= chunk_size + LineLen(c.content[Len(c.content)])

(***************************************************************************)
(* Planner.plan_response.  The chunks it is given are search results as    *)
(* the retrieval pipeline returns them: a SimpleChunk (kind "obj") or the  *)
(* index's metadata entry itself (kind "dict").  The content of a chunk is *)
(* a sequence of lines; no line of the alphabet ends a sentence, holds a   *)
(* backquoted command or a numbered, lettered or arrow bullet, and no text *)
(* is longer than 50 characters.                                           *)
(***************************************************************************)
RunbookIds == {"g1", "g2", "t1", "r1"}

\* The 'content' of the index entries of the runbook knowledge base.
ChunkContent ==
    [g1 |-> <<"* Check system load", "* Verify rate limit", "* Restart nginx">>,
     g2 |-> <<"Restart the service">>,
     t1 |-> <<"Check disk">>,
     r1 |-> <<"* Validate output", "* Run make install", "* See dashboard">>]

\* The lower-cased words of a text (a bullet mark is no word).
Words(text) ==
    LET t == IF bullet_text(text) # "" THEN bullet_text(text) ELSE text
    IN  CASE t = "Check system load" -> {"check", "system", "load"}
          [] t = "Verify rate limit" -> {"verify", "rate", "limit"}
          [] t = "Restart nginx" -> {"restart", "nginx"}
          [] t = "Restart the service" -> {"restart", "the", "service"}
          [] t = "Check disk" -> {"check", "disk"}
          [] t = "Validate output" -> {"validate", "output"}
          [] t = "Run make install" -> {"run", "make", "install"}
          [] t = "See dashboard" -> {"see", "dashboard"}
          [] OTHER -> {}

\* The words of a question: both kinds of question speak of "high usage" (an
\* intent hint of the retrieval pipeline), the banned one also holds the phrase
\* "based on available information".
QuestionWords(q) ==
    IF q = "banned" THEN {"high", "usage", "based", "on", "available", "information"}
    ELSE {"high", "usage"}

\* __init__: action_verbs (cut to the single verbs of the first four patterns
\* and of the last one), and the commands of _is_actionable_bullet.
action_verbs ==
    {"check", "verify", "review", "set", "increase", "scale", "rollback", "pin",
     "move", "cap", "raise", "switch", "restart", "restore", "clear", "flush",
     "reset", "reload", "refresh", "update", "upgrade", "downgrade", "enable",
     "disable", "configure", "tune", "optimize", "adjust", "modify", "change",
     "replace", "remove", "monitor", "watch", "track", "log", "alert", "notify",
     "report", "document", "test", "validate", "run", "execute", "launch",
     "invoke", "call", "trigger", "initiate", "begin", "commence", "start"}
command_names ==
    {"ssh", "curl", "wget", "git", "docker", "kubectl", "helm", "terraform",
     "ansible", "make", "npm", "yarn", "pip", "apt", "yum", "brew"}

\* _is_actionable_bullet
is_actionable_bullet(text) ==
    \/ Words(text) \cap action_verbs # {}
    \/ Words(text) \cap command_names # {}

\* _has_metrics (its second and third pattern; no text holds a number)
has_metrics(text) ==
    Words(text) \cap {"high", "low", "medium", "critical", "warning", "error",
                      "success", "failure", "threshold", "limit", "quota", "rate",
                      "latency", "throughput", "availability", "uptime"} # {}

\* _extract_bullet_points: what the bullet patterns capture, then every
\* stripped line that is actionable (a bullet line is found both ways).
extract_bullet_points(content) ==
    LET bullet_lines == SelectSeq(content, LAMBDA l : bullet_text(l) # "")
        action_lines == SelectSeq(content, is_actionable_bullet)
    IN  [k \in 1..Len(bullet_lines) |-> bullet_text(bullet_lines[k])] \o action_lines

\* _extract_chunk_metadata: an object gives its content and the fields of its
\* metadata; a dict is asked for its own keys 'filename', 'chunk_id' and
\* 'section_type', which an index entry keeps one level down under 'metadata'.
extract_chunk_metadata(chunk) ==
    IF chunk.kind = "dict"
    THEN [content |-> ChunkContent[chunk.id], filename |-> "", chunk_id |-> "",
          section_type |-> "unknown"]
    ELSE [content |-> ChunkContent[chunk.id],
          filename |-> ChunkMeta[chunk.id].filename,
          chunk_id |-> chunk.id,
          section_type |-> ChunkMeta[chunk.id].section_type]

\* The ActionableBullet objects _extract_actionable_bullets makes of one chunk.
ChunkBullets(r) ==
    LET chunk_metadata == extract_chunk_metadata(r.chunk)
        bullets == SelectSeq(extract_bullet_points(chunk_metadata.content),
                             is_actionable_bullet)
    IN  [k \in 1..Len(bullets) |->
            [content |-> bullets[k],
             source_chunk |-> r.chunk,
             source_file |-> chunk_metadata.filename,
             chunk_id |-> chunk_metadata.chunk_id,
             confidence |-> r.score,
             has_metrics |-> has_metrics(bullets[k])]]

RECURSIVE AllChunkBullets(_)
AllChunkBullets(chunks) ==
    IF chunks = <<>> THEN <<>>
    ELSE ChunkBullets(Head(chunks)) \o AllChunkBullets(Tail(chunks))

\* list.sort(key=..., reverse=True) of bullets whose keys are given: SortDesc
\* on the pairs of a bullet and its key.
SortBullets(bullets, keys) ==
    LET sorted == SortDesc([k \in 1..Len(bullets) |->
                               [bullet |-> bullets[k], score |-> keys[k]]])
    IN  [k \in 1..Len(sorted) |-> sorted[k].bullet]

\* _extract_actionable_bullets: the bullets of all chunks, best confidence first.
extract_actionable_bullets(chunks) ==
    LET bullets == AllChunkBullets(chunks)
    IN  SortBullets(bullets, [k \in 1..Len(bullets) |-> bullets[k].confidence])

\* The classification by content of _classify_bullets_by_section ("word in
\* content_lower": no keyword lies inside a longer word of the alphabet).
keyword_bucket(content) ==
    IF Words(content) \cap {"check", "verify", "review", "monitor", "diagnose"} # {}
    THEN "first_checks"
    ELSE IF Words(content) \cap {"fix", "resolve", "restart", "restore", "clear"} # {}
    THEN "fix"
    ELSE IF Words(content) \cap {"validate", "confirm", "test", "ensure", "verify"} # {}
    THEN "validate"
    ELSE "first_checks"

Buckets == {"first_checks", "fix", "validate"}

\* "getattr(bullet.source_chunk, 'metadata', {})": the metadata of an object;
\* a dict has no attribute 'metadata', so the default {} is taken and
\* its section_type is 'unknown'.
source_section_type(chunk) ==
    IF chunk.kind = "obj" THEN ChunkMeta[chunk.id].section_type ELSE "unknown"

\* The bucket _classify_bullets_by_section appends a bullet to.
bucket_of(bullet) ==
    LET chunk_section_type == source_section_type(bullet.source_chunk)
    IN  IF chunk_section_type \in Buckets THEN chunk_section_type
        ELSE keyword_bucket(bullet.content)

\* _classify_bullets_by_section
classify_bullets_by_section(bullets) ==
    [b \in Buckets |-> SelectSeq(bullets, LAMBDA x : bucket_of(x) = b)]

\* _select_best_bullets: all of them when they are at most max_count, else the
\* max_count best by confidence plus bonus (0.1 for metrics; a list of
\* max_count bullets is never shorter than min_count).
select_best_bullets(bullets, min_count, max_count) ==
    IF Len(bullets) <= max_count THEN bullets
    ELSE Take(SortBullets(bullets,
                  [k \in 1..Len(bullets) |->
                      bullets[k].confidence
                      + (IF bullets[k].has_metrics THEN One \div 10 ELSE 0)]),
              max_count)

\* _extract_relevant_sentences: the content is one sentence; it counts when it
\* has 20 characters or more and shares more than a tenth of the question's
\* words.
extract_relevant_sentences(id, q) ==
    LET sentence_words == UNION {Words(ChunkContent[id][k]) : k \in 1..Len(ChunkContent[id])}
        common_words == QuestionWords(q) \cap sentence_words
    IN  IF /\ ChunkMeta[id].content_length >= 20
           /\ 10 * Cardinality(common_words) > Cardinality(QuestionWords(q))
        THEN <<id>> ELSE <<>>

\* _build_why_explanation: sentences of the three best chunks, or the default
\* text ("plain": a text without a banned phrase).
build_why_explanation(chunks, q) ==
    LET top == Take(SortDesc(chunks), 3)
    IN  IF \E k \in 1..Len(top) : extract_relevant_sentences(top[k].chunk.id, q) # <<>>
        THEN "sentences"
        ELSE "plain"

\* _generate_sources_list over search results: the cleaned names of the files
\* _extract_chunk_metadata finds, sorted.
sources_of(chunks) ==
    LET files == {extract_chunk_metadata(chunks[k].chunk).filename : k \in 1..Len(chunks)}
                 \ {""}
        sorted == generate_sources_list(files)
    IN  [k \in 1..Len(sorted) |-> clean_filename(sorted[k])]

\* A PlannedResponse with its metadata (the keys total_bullets, chunks_analyzed
\* and fallback; a missing fallback key reads as FALSE).
WithMetadata(pr, total_bullets, chunks_analyzed, is_fallback) ==
    [first_checks |-> pr.first_checks, why_explanation |-> pr.why_explanation,
     fix_steps |-> pr.fix_steps, validate_steps |-> pr.validate_steps,
     sources |-> pr.sources, has_fix |-> pr.has_fix, has_validate |-> pr.has_validate,
     metadata |-> [total_bullets |-> total_bullets,
                   chunks_analyzed |-> chunks_analyzed,
                   fallback |-> is_fallback]]

\* _create_fallback_response: empty lists, the sources of the chunks, the
\* generic text and the fallback flag.  (Its own except branch, without
\* sources and flag, needs len(chunks) to raise, which a list never does.)
create_fallback_unflagged(chunks) ==
    WithMetadata(PlannedResponse(<<>>, "plain", <<>>, <<>>, <<>>), 0, 0, FALSE)
create_fallback_response(chunks) ==
    WithMetadata(PlannedResponse(<<>>, "plain", <<>>, <<>>, sources_of(chunks)),
                 0, Len(chunks), TRUE)

\* plan_response; fails: an exception escapes inside its try block.
plan_response(chunks, q, fails) ==
    IF fails THEN create_fallback_response(chunks)
    ELSE
    LET all_bullets == extract_actionable_bullets(chunks)
        classified_bullets == classify_bullets_by_section(all_bullets)
        why_explanation == build_why_explanation(chunks, q)
        first_checks == select_best_bullets(classified_bullets["first_checks"], 3, 5)
        fix_steps == select_best_bullets(classified_bullets["fix"], 2, 5)
        validate_steps == select_best_bullets(classified_bullets["validate"], 2, 4)
        sources == sources_of(chunks)
    IN  WithMetadata(PlannedResponse(first_checks, why_explanation, fix_steps,
                                     validate_steps, sources),
                     Len(all_bullets), Len(chunks), FALSE)

\* get_planning_stats
get_planning_stats(pr) ==
    [total_bullets |-> Len(pr.first_checks) + Len(pr.fix_steps) + Len(pr.validate_steps),
     sources_count |-> Len(pr.sources),
     has_fix |-> pr.has_fix, has_validate |-> pr.has_validate]

(***************************************************************************)
(* SpecPlan: one call of plan_response on up to MaxPlanChunks search       *)
(* results over the runbook knowledge base.                                *)
(***************************************************************************)
MaxPlanChunks == 2

PlanScores == {One \div 2, One}
PlanResults ==
    {Result(c, s) : c \in {SimpleChunk(id, 1) : id \in RunbookIds}
                         \cup {MetadataEntry(id) : id \in RunbookIds},
                    s \in PlanScores}

PlanInit ==
    /\ plan_chunks \in SeqsUpTo(PlanResults, MaxPlanChunks)
    /\ plan_fault \in BOOLEAN
    /\ plan = NoneVal
    /\ GateIdle
    /\ AskIdle
    /\ RetrievalIdle
    /\ IndexIdle
    /\ ChunkIdle
    /\ SessionIdle
    /\ SectionIdle
    /\ MmrIdle
    /\ IngestIdle
    /\ EmbeddingIdle

\* plan_response(chunks, question)
PlanResponse ==
    /\ plan = NoneVal
    /\ plan' = plan_response(plan_chunks, question, plan_fault)
    /\ UNCHANGED <<plan_chunks, plan_fault>>
    /\ UNCHANGED exceptPlan

PlanNext == PlanResponse

SpecPlan == PlanInit /\ [][PlanNext]_vars

C16_BucketBySection ==
    (plan # NoneVal /\ ~plan_fault) =>
        LET placed == [b \in Buckets |->
                          CASE b = "first_checks" -> plan.first_checks
                            [] b = "fix" -> plan.fix_steps
                            [] b = "validate" -> plan.validate_steps]
        IN  \A b \in Buckets : \A k \in 1..Len(placed[b]) :
                LET bullet == placed[b][k]
                    section_type == ChunkMeta[bullet.source_chunk.id].section_type
                IN  /\ b = (IF section_type \in Buckets THEN section_type
                            ELSE keyword_bucket(bullet.content))
                    /\ \A other \in Buckets \ {b} : bullet \notin Range(placed[other])

(***************************************************************************)
(* SpecPipeline: ask_question end to end.  The index holds chunks of the   *)
(* runbook knowledge base; the retrieval pipeline, the planner, the        *)
(* composition of the answer and the gate are the operators above.  The    *)
(* questions share no word with the chunks.                                *)
(***************************************************************************)
\* "retrieve_diverse_results(question, self.faiss_service, top_k=8)"
ask_top_k == 8

\* _keyword_search: reads chunk.content of every entry of faiss_service.metadata;
\* the entries are dicts, so a non-empty index raises AttributeError, which is
\* caught, and an empty one gives no chunk: [] in both cases.
keyword_search(q, meta) == <<>>

\* The search results ask_question works on.
search(q, meta, vraw, braw, f) ==
    LET search_results == retrieve_diverse_results(meta, vraw, braw, ask_top_k, f)
    IN  IF search_results # <<>> THEN search_results ELSE keyword_search(q, meta)

MaxKnowledgeBase == 2

PipelineInit ==
    /\ question \in {"plain", "banned"}
    /\ tools_ran \in BOOLEAN
    /\ fault \in BOOLEAN
    /\ search_found = FALSE
    /\ planned_response = NoneVal
    /\ response = NoneVal
    /\ faiss_metadata \in SeqsUpTo(RunbookIds, MaxKnowledgeBase)
    /\ vector_raw \in [RunbookIds -> 0..MaxRaw]
    /\ \E raw \in 0..1 : bm25_raw = [id \in RunbookIds |-> raw]
    /\ top_k = ask_top_k
    /\ failure \in Failures
    /\ retrieval_pc = "called"
    /\ vector_results = <<>>
    /\ bm25_results = <<>>
    /\ merged_results = <<>>
    /\ final_results = <<>>
    /\ GateIdle
    /\ IndexIdle
    /\ ChunkIdle
    /\ PlanIdle
    /\ SessionIdle
    /\ SectionIdle
    /\ MmrIdle
    /\ IngestIdle
    /\ EmbeddingIdle

\* ask_question(question): retrieval, keyword fallback, planning, composition,
\* gate.
AskPipeline ==
    /\ retrieval_pc = "called"
    /\ retrieval_pc' = "returned"
    /\ vector_results' =
           IF failure \in {"outer", "outer_embed"} THEN <<>>
           ELSE StageVector(faiss_metadata, vector_raw, top_k, failure)
    /\ bm25_results' =
           IF failure \in {"outer", "outer_embed"} THEN <<>>
           ELSE StageBM25(faiss_metadata, bm25_raw, top_k, failure)
    /\ merged_results' =
           IF failure \in {"outer", "outer_embed"} THEN <<>>
           ELSE StageMerge(faiss_metadata, vector_raw, bm25_raw, top_k, failure)
    /\ final_results' =
           retrieve_diverse_results(faiss_metadata, vector_raw, bm25_raw, top_k, failure)
    /\ LET search_results == search(question, faiss_metadata, vector_raw, bm25_raw, failure)
       IN  /\ search_found' = (search_results # <<>>)
           /\ planned_response' =
                  IF search_results # <<>> /\ ~fault
                  THEN plan_response(search_results, question, FALSE)
                  ELSE NoneVal
           /\ response' =
                  ask_question(question, search_results # <<>>,
                               plan_response(search_results, question, FALSE),
                               tools_ran, fault)
    /\ UNCHANGED <<question, tools_ran, fault>>
    /\ UNCHANGED <<faiss_metadata, vector_raw, bm25_raw, top_k, failure>>
    /\ UNCHANGED <<gateVars, indexVars, chunkVars, planVars, sessionVars, sectionVars, mmrVars, ingestVars, embeddingVars>>

PipelineNext == AskPipeline

SpecPipeline == PipelineInit /\ [][PipelineNext]_vars

\* ask_question has returned.
Answered == retrieval_pc = "returned" /\ response # NoneVal

\* The answer holds a "First checks" block of at least n bullets.
HasFirstChecks(a, n) ==
    /\ a.kind = "text"
    /\ \E i \in 1..Len(a.lines) :
           /\ a.lines[i] = "FC"
           /\ i + n <= Len(a.lines)
           /\ \A k \in (i + 1)..(i + n) : IsBullet(a.lines[k])

\* The text "Fix" occurs in the answer: as the header "**Fix:**" of a composed
\* answer, or in the line "- **Remediation/Fix**: ..." that every
\* missing-context message holds.
MentionsFix(a) ==
    \/ a.kind = "text" /\ "FIX" \in Range(a.lines)
    \/ a.kind = "missing_context"

\* C17: the knowledge base is one document whose First Checks section holds
\* three actionable bullets and that has no Fix section (the chunk g1 of
\* guide.md).  The answer of ask_question then holds a "First checks" block of
\* at least 3 bullets, and the text "Fix" does not occur in it.
C17_FirstChecksNoFix ==
    (/\ Answered /\ ~fault /\ failure = "none"
     /\ faiss_metadata = <<"g1">>)
        => /\ HasFirstChecks(response.answer, 3)
           /\ ~MentionsFix(response.answer)

\* C18: whenever quality_gate.passed is true, the planning stats show
\* total_bullets >= 3 and sources_count >= 2.
C18_PassedMeansEnough ==
    (Answered /\ response.quality_gate.passed) =>
        /\ get_planning_stats(planned_response).total_bullets >= 3
        /\ get_planning_stats(planned_response).sources_count >= 2

\* _clean_citations: the names it skips.
MetaFiles == {"README.md"}

\* C19: the citations of a response never name a meta file (README, LICENSE,
\* CHANGELOG, CONTRIBUTING), also when chunks of such a file were retrieved and
\* gave bullets; the runbook files that gave bullets are cited.
C19_NoMetaCitations ==
    Answered =>
        /\ \A k \in 1..Len(response.citations) :
               response.citations[k].file \notin MetaFiles
        /\ response.quality_gate.passed =>
               \A b \in Range(planned_response.first_checks)
                        \cup Range(planned_response.fix_steps)
                        \cup Range(planned_response.validate_steps) :
                   (b.source_file # "" /\ b.source_file \notin MetaFiles) =>
                       \E k \in 1..Len(response.citations) :
                           response.citations[k].file = b.source_file

\* C20: with an empty index retrieve_diverse_results returns [] and
\* ask_question returns the response that reports "No relevant information
\* found", with confidence 0.0, no citations and quality_gate.passed false.
C20_EmptyIndex ==
    (Answered /\ faiss_metadata = <<>>) =>
        /\ final_results = <<>>
        /\ response.answer = [kind |-> "error", message |-> "No relevant information found"]
        /\ response.confidence = 0
        /\ response.citations = <<>>
        /\ response.quality_gate.passed = FALSE
        /\ response.quality_gate.issues = <<"No relevant information found">>

\* A question was answered on an empty index, while the rest of ask_question
\* would have failed.
C20_Witness ==
    /\ Answered
    /\ faiss_metadata = <<>>
    /\ fault
    /\ response.answer.kind = "error"

(***************************************************************************)
(* DatabaseService (api/app/services/database_service.py) and the          *)
(* /ask/structured endpoint (api/main.py).  The sessions table is a        *)
(* function from the id of a row to its title and message_count, the       *)
(* messages table the sequence of its rows in the order of insertion.      *)
(* uuid4 never hands out an id twice (the ids are named in the order in    *)
(* which they are handed out), and a client can name only an id it was     *)
(* given or an id no session ever had.  Every method runs in one           *)
(* transaction: an exception before the commit leaves the tables as they   *)
(* were.                                                                   *)
(***************************************************************************)
MaxSessions == 2
MaxMessages == 4

Uuids == <<"u1", "u2", "u3">>
UnknownId == "unknown"

\* str(uuid.uuid4())
uuid4 == Uuids[Cardinality(issued) + 1]

NoSessions == [s \in {} |-> NoneVal]

\* create_session: INSERT INTO sessions ... message_count 0
create_session(tbl, id, title) ==
    [s \in DOMAIN tbl \cup {id} |->
        IF s = id THEN [title |-> title, message_count |-> 0] ELSE tbl[s]]

\* delete_session: DELETE FROM messages WHERE session_id = ?
delete_session_messages(rows, session_id) ==
    SelectSeq(rows, LAMBDA m : m.session_id # session_id)

\* delete_session: DELETE FROM sessions WHERE id = ?
delete_session(tbl, session_id) ==
    [s \in DOMAIN tbl \ {session_id} |-> tbl[s]]

\* add_message: INSERT INTO messages (no foreign key is enforced: sqlite3
\* leaves PRAGMA foreign_keys off, so the row is stored whatever session_id is)
add_message_row(rows, session_id, content, role) ==
    Append(rows, [session_id |-> session_id, content |-> content, role |-> role])

\* add_message without the UPDATE of the session's message_count
add_message_uncounted(tbl, session_id) == tbl

\* add_message: UPDATE sessions SET message_count = message_count + 1 WHERE id = ?
add_message(tbl, session_id) ==
    [s \in DOMAIN tbl |->
        IF s = session_id
        THEN [tbl[s] EXCEPT !.message_count = @ + 1]
        ELSE tbl[s]]

\* SELECT COUNT(*) FROM messages WHERE session_id = ?
Stored(rows, session_id) ==
    Cardinality({k \in 1..Len(rows) : rows[k].session_id = session_id})

\* What the last call left for the invariants to look at.
Reply(op, request_id, id, status, answer_text) ==
    [op |-> op, request_id |-> request_id, session_id |-> id, status |-> status,
     question |-> "q1", answer |-> answer_text,
     sessions_before |-> DOMAIN sessions,
     stored_before |-> Stored(messages, id)]

SessionInit ==
    /\ SessionIdle
    /\ SectionIdle
    /\ MmrIdle
    /\ IngestIdle
    /\ EmbeddingIdle
    /\ GateIdle
    /\ AskIdle
    /\ RetrievalIdle
    /\ IndexIdle
    /\ ChunkIdle
    /\ PlanIdle

\* What a client can send as session_id.
ClientIds == issued \cup {UnknownId}

\* POST /sessions -> DatabaseService.create_session
CreateSession ==
    /\ Cardinality(issued) < MaxSessions
    /\ \E id \in {uuid4} :
           /\ sessions' = create_session(sessions, id, "q1")
           /\ issued' = issued \cup {id}
           /\ session_reply' = Reply("create_session", "", id, 200, "")
    /\ UNCHANGED messages
    /\ UNCHANGED exceptSession

\* DatabaseService.add_message(session_id, content, role)
AddMessage ==
    /\ Len(messages) < MaxMessages
    /\ \E id \in ClientIds, role \in {"user", "assistant"} :
           /\ messages' = add_message_row(messages, id, "q1", role)
           /\ sessions' = add_message(sessions, id)
           /\ session_reply' = Reply("add_message", id, id, 200, "")
    /\ UNCHANGED issued
    /\ UNCHANGED exceptSession

\* DatabaseService.delete_session(session_id)
DeleteSession ==
    /\ \E id \in ClientIds :
           /\ messages' = delete_session_messages(messages, id)
           /\ sessions' = delete_session(sessions, id)
           /\ session_reply' = Reply("delete_session", id, id, 200, "")
    /\ UNCHANGED issued
    /\ UNCHANGED exceptSession

\* POST /ask/structured.  rag_service.ask_question never raises and its
\* answer is a text; db_fails_at is the database call that raises (0 = none,
\* 1 = create_session, 2 = the user's add_message, 3 = the assistant's).
AskStructured ==
    /\ Len(messages) + 2 <= MaxMessages
    /\ \E request_id \in ClientIds \cup {""}, db_fails_at \in 0..3 :
         LET creates == request_id = ""
             session_id == IF creates THEN uuid4 ELSE request_id
             created == IF creates /\ db_fails_at # 1
                        THEN create_session(sessions, session_id, "q1")
                        ELSE sessions
             rows1 == add_message_row(messages, session_id, "q1", "user")
             rows2 == add_message_row(rows1, session_id, "answer", "assistant")
         IN  /\ creates => Cardinality(issued) < MaxSessions
             /\ db_fails_at = 1 => creates
             /\ issued' = IF creates THEN issued \cup {session_id} ELSE issued
             /\ CASE db_fails_at = 1 ->
                       /\ sessions' = sessions
                       /\ messages' = messages
                       /\ session_reply' = Reply("ask", request_id, "", 500, "")
                  [] db_fails_at = 2 ->
                       /\ sessions' = created
                       /\ messages' = messages
                       /\ session_reply' = Reply("ask", request_id, "", 500, "")
                  [] db_fails_at = 3 ->
                       /\ sessions' = add_message(created, session_id)
                       /\ messages' = rows1
                       /\ session_reply' = Reply("ask", request_id, "", 500, "")
                  [] OTHER ->
                       /\ sessions' = add_message(add_message(created, session_id),
                                                  session_id)
                       /\ messages' = rows2
                       /\ session_reply' = Reply("ask", request_id, session_id, 200,
                                                 "answer")
    /\ UNCHANGED exceptSession

SessionNext == CreateSession \/ AddMessage \/ DeleteSession \/ AskStructured

SpecSession == SessionInit /\ [][SessionNext]_vars

\* The last call was an ask that returned a result.
AskReturned ==
    /\ session_reply # NoneVal
    /\ session_reply.op = "ask"
    /\ session_reply.status = 200

\* The two newest messages are the question and the answer of the last ask,
\* stored under the session id the ask returned.
QuestionAndAnswerStored ==
    /\ Len(messages) >= 2
    /\ messages[Len(messages) - 1] =
           [session_id |-> session_reply.session_id,
            content |-> session_reply.question, role |-> "user"]
    /\ messages[Len(messages)] =
           [session_id |-> session_reply.session_id,
            content |-> session_reply.answer, role |-> "assistant"]

\* C21: a structured ask without session_id creates exactly one new session
\* and stores the question and the answer in it; an ask with a session_id
\* returns that id, creates no session and appends two messages under it;
\* after any sequence of create_session, add_message, delete_session and asks,
\* the message_count of every existing session is the number of messages
\* stored for it.
C21_SessionsPersist ==
    /\ (AskReturned /\ session_reply.request_id = "") =>
           /\ session_reply.session_id \notin session_reply.sessions_before
           /\ DOMAIN sessions = session_reply.sessions_before
                                    \cup {session_reply.session_id}
           /\ QuestionAndAnswerStored
           /\ Stored(messages, session_reply.session_id) = 2
    /\ (AskReturned /\ session_reply.request_id # "") =>
           /\ session_reply.session_id = session_reply.request_id
           /\ DOMAIN sessions = session_reply.sessions_before
           /\ QuestionAndAnswerStored
           /\ Stored(messages, session_reply.session_id)
                  = session_reply.stored_before + 2
    /\ \A s \in DOMAIN sessions :
           sessions[s].message_count = Stored(messages, s)

\* A second ask named the session the first ask created, and the session now
\* holds the four messages of the two asks.
C21_Witness ==
    /\ AskReturned
    /\ session_reply.request_id # ""
    /\ session_reply.request_id \in DOMAIN sessions
    /\ session_reply.stored_before = 2
    /\ sessions[session_reply.request_id].message_count = 4

(***************************************************************************)
(* Sectionizer (api/app/services/sectionizer.py): the type of a section.    *)
(* A title is the set of the phrases it is made of; a phrase stands for    *)
(* the regular expressions and the words that are found in it.  The        *)
(* content of a section is what _post_process_sections measures of it.     *)
(***************************************************************************)
TitlePhrases == {"first checks", "fix", "verify", "policy", "pitfalls", "overview",
                 "steps", "notes", "how", "deploy"}

\* self.section_patterns, in the order of the dict: the phrases in which a
\* pattern of the group is found.
section_patterns ==
    <<[type |-> "first_checks", found |-> {"first checks"}],
      [type |-> "fix", found |-> {"fix"}],
      [type |-> "validate", found |-> {"first checks", "verify"}],
      [type |-> "policy", found |-> {"policy"}],
      [type |-> "gotchas", found |-> {"pitfalls"}],
      [type |-> "background", found |-> {"overview"}]>>

\* _classify_section, "Default classification based on title characteristics":
\* the phrases that hold one of the words of each branch, in the order of the
\* branches.
title_characteristics ==
    <<[type |-> "validate", found |-> {"first checks", "verify"}],
      [type |-> "fix", found |-> {"steps"}],
      [type |-> "gotchas", found |-> {"notes"}],
      [type |-> "background", found |-> {"how"}],
      [type |-> "policy", found |-> {"policy"}]>>

\* The type of the first entry of the table found in the title, or default.
RECURSIVE FirstMatch(_, _, _)
FirstMatch(table, title, default) ==
    IF table = <<>> THEN default
    ELSE IF Head(table).found \cap title # {} THEN Head(table).type
    ELSE FirstMatch(Tail(table), title, default)

\* _classify_section without the default classification
classify_title_patterns_only(title) == FirstMatch(section_patterns, title, "background")

\* Sectionizer._classify_section(title)
classify_title(title) ==
    FirstMatch(section_patterns, title,
               FirstMatch(title_characteristics, title, "background"))

\* Sectionizer._refine_section_type(section)
refine_section_type(type, content) ==
    IF content.has_commands /\ content.bullet_points > 2 /\ type \in {"background", "policy"}
    THEN "fix"
    ELSE IF content.has_metrics /\ content.bullet_points > 1
            /\ type \in {"background", "policy"}
    THEN "validate"
    ELSE IF content.bullet_points > 5 /\ type = "background" THEN "fix"
    ELSE IF content.check_words /\ type = "background" THEN "validate"
    ELSE IF content.step_words /\ type = "background" THEN "fix"
    ELSE type

\* detect_sections for one heading: _classify_section of the title, then
\* _post_process_sections.
detect_section(title, content) ==
    [title |-> title,
     title_type |-> classify_title(title),
     section_type |-> refine_section_type(classify_title(title), content)]

MaxTitlePhrases == 2
MaxBulletPoints == 6

SectionContents ==
    [has_commands : BOOLEAN, has_metrics : BOOLEAN, bullet_points : {0, 2, 3, MaxBulletPoints},
     check_words : BOOLEAN, step_words : BOOLEAN]

SectionInit ==
    /\ section_title \in {t \in SUBSET TitlePhrases : Cardinality(t) \in 1..MaxTitlePhrases}
    /\ section_content \in SectionContents
    /\ detected = NoneVal
    /\ GateIdle
    /\ AskIdle
    /\ RetrievalIdle
    /\ IndexIdle
    /\ ChunkIdle
    /\ PlanIdle
    /\ SessionIdle
    /\ MmrIdle
    /\ IngestIdle
    /\ EmbeddingIdle

\* sectionizer.detect_sections(content), followed on one of its sections
DetectSections ==
    /\ detected = NoneVal
    /\ detected' = detect_section(section_title, section_content)
    /\ UNCHANGED <<section_title, section_content>>
    /\ UNCHANGED exceptSection

SectionNext == DetectSections

SpecSection == SectionInit /\ [][SectionNext]_vars

\* The first keyword group, in the order first_checks, fix, validate, policy,
\* gotchas, background, that matches the title; background when none does.
FirstKeywordGroup(title) ==
    IF \E k \in 1..Len(section_patterns) : section_patterns[k].found \cap title # {}
    THEN section_patterns[CHOOSE k \in 1..Len(section_patterns) :
             /\ section_patterns[k].found \cap title # {}
             /\ \A j \in 1..(k - 1) : section_patterns[j].found \cap title = {}].type
    ELSE "background"

\* The post-processing pass changes only a background or policy section, and
\* only to fix or validate.
RefinedOnlyFromBackgroundOrPolicy ==
    \/ detected.section_type = detected.title_type
    \/ /\ detected.title_type \in {"background", "policy"}
       /\ detected.section_type \in {"fix", "validate"}

\* C22 as stated: the type a section has from its title is the first keyword
\* group that matches the title, background when no group matches; the
\* post-processing pass changes only background or policy, only to fix or
\* validate.
C22_FirstGroupElseBackground ==
    detected # NoneVal =>
        /\ detected.title_type = FirstKeywordGroup(detected.title)
        /\ RefinedOnlyFromBackgroundOrPolicy

\* C22 amended: when no keyword group matches the title, the type comes from
\* the words of the title: fix for step, process or method, gotchas for note
\* or important, background otherwise.
C22_FirstGroupElseTitleWords ==
    detected # NoneVal =>
        /\ detected.title_type =
               IF \E k \in 1..Len(section_patterns) :
                      section_patterns[k].found \cap detected.title # {}
               THEN FirstKeywordGroup(detected.title)
               ELSE IF "steps" \in detected.title THEN "fix"
               ELSE IF "notes" \in detected.title THEN "gotchas"
               ELSE "background"
        /\ RefinedOnlyFromBackgroundOrPolicy
        /\ detected.title_type \in {"first_checks", "fix", "validate", "gotchas"}
               => detected.section_type = detected.title_type

\* A section whose title matches no keyword group got its type from a word of
\* the title, and its content would have re-typed a background section.
C22_Witness ==
    /\ detected # NoneVal
    /\ detected.title = {"notes", "deploy"}
    /\ detected.section_type = "gotchas"
    /\ section_content.check_words
    /\ section_content.bullet_points = MaxBulletPoints

(***************************************************************************)
(* Steps 5 and 6 of retrieve_diverse_results: _cross_encoder_rerank and    *)
(* _mmr_diversity_selection on a list of merged candidates.  The merged    *)
(* list is sorted by fused score, best first, as _merge_results leaves it: *)
(* candidate i has the score top - (i - 1) * step.  The chunks the vector  *)
(* search found are objects, the chunks only BM25 found are dicts.  A      *)
(* cross-encoder, when one is set, gives the candidate at place i of the   *)
(* list the score offset + i * 100 ("rising") or offset - i * 100          *)
(* ("falling"); every chunk has content and predict does not fail.         *)
(***************************************************************************)
max_rerank_candidates == 20

\* cross_encoder_model.predict: the score of the candidate at place i
predict(ce, i) ==
    IF ce.order = "rising" THEN ce.offset + i * 100 ELSE ce.offset - i * 100

\* _cross_encoder_rerank(query, candidates)
cross_encoder_rerank(candidates, ce) ==
    IF ce = NoneVal THEN candidates
    ELSE LET rerank_candidates == Take(candidates, max_rerank_candidates)
             reranked_results ==
                 SortDesc([i \in 1..Len(rerank_candidates) |->
                              Result(rerank_candidates[i].chunk, predict(ce, i))])
             reranked_ids == {get_chunk_id(reranked_results[i].chunk) :
                                  i \in 1..Len(reranked_results)}
             remaining_candidates ==
                 SelectSeq(candidates, LAMBDA r : get_chunk_id(r.chunk) \notin reranked_ids)
         IN  reranked_results \o remaining_candidates

\* Steps 5 and 6: the list _mmr_diversity_selection is given
rerank_step(candidates, ce) ==
    IF ce # NoneVal THEN cross_encoder_rerank(candidates, ce) ELSE candidates

MaxCandidates == 22
MmrTopKs == {2, 8}

\* A merged list of n candidates, of which those from place dicts_from on were
\* found by BM25 only.
MergedCandidates(n, top, step, dicts_from) ==
    [i \in 1..n |->
        Result(IF i < dicts_from THEN SimpleChunk(LargeIndexIds[i], i)
               ELSE MetadataEntry(LargeIndexIds[i]),
               top - (i - 1) * step)]

CrossEncoders ==
    {NoneVal} \cup [offset : {0 - 3 * One, 0}, order : {"rising", "falling"}]

MmrInit ==
    /\ \E n \in {3, MaxCandidates - 1, MaxCandidates}, top \in {One, (6 * One) \div 10},
          step \in {0, One \div 100, One \div 50}, dicts_from \in {17, MaxCandidates + 1} :
           mmr_candidates = MergedCandidates(n, top, step, dicts_from)
    /\ cross_encoder \in CrossEncoders
    /\ mmr_top_k \in MmrTopKs
    /\ mmr_selected = NoneVal
    /\ GateIdle
    /\ AskIdle
    /\ RetrievalIdle
    /\ IndexIdle
    /\ ChunkIdle
    /\ PlanIdle
    /\ SessionIdle
    /\ SectionIdle
    /\ IngestIdle
    /\ EmbeddingIdle

\* Steps 5 and 6 of retrieve_diverse_results
SelectDiverse ==
    /\ mmr_selected = NoneVal
    /\ mmr_selected' = mmr_diversity_selection(rerank_step(mmr_candidates, cross_encoder),
                                               mmr_top_k, TRUE)
    /\ UNCHANGED <<mmr_candidates, cross_encoder, mmr_top_k>>
    /\ UNCHANGED exceptMmr

MmrNext == SelectDiverse

SpecMmr == MmrInit /\ [][MmrNext]_vars

\* 0.7 * relevance + 0.3 * (1 - maximum similarity to the selected), in tenths
MmrScore(r, chosen) ==
    mmr_lambda * r.score + (10 - mmr_lambda) * calculate_diversity(r.chunk, chosen)

\* C23: given more than top_k candidates, _mmr_diversity_selection returns
\* exactly top_k pairwise distinct candidates; the first has the highest
\* relevance score of all candidates, also when the list comes from
\* cross-encoder re-ranking; each later one maximizes 0.7 * relevance
\* + 0.3 * (1 - maximum similarity to the already selected) among the remaining.
C23_MmrSelection ==
    LET given == rerank_step(mmr_candidates, cross_encoder)
    IN  (mmr_selected # NoneVal /\ Len(given) > mmr_top_k) =>
            /\ Len(mmr_selected) = mmr_top_k
            /\ \A i, j \in 1..Len(mmr_selected) :
                   i # j => mmr_selected[i].chunk # mmr_selected[j].chunk
            /\ \A i \in 1..Len(mmr_selected) : mmr_selected[i] \in Range(given)
            /\ \A r \in Range(given) : r.score <= mmr_selected[1].score
            /\ \A j \in 2..Len(mmr_selected) :
                   LET chosen == SubSeq(mmr_selected, 1, j - 1)
                   IN  \A r \in Range(given) \ Range(chosen) :
                           MmrScore(r, chosen) <= MmrScore(mmr_selected[j], chosen)

(***************************************************************************)
(* IngestionService (api/app/services/ingestion_service.py) with its       *)
(* FileManager and its FAISSService, and the RAGService of the same        *)
(* process.  api/main.py builds the services once per process:             *)
(* IngestionService() and RAGService() each construct a FAISSService of    *)
(* their own, here instance 1 and instance 2.  A document is a file name   *)
(* and a content; the hash of a content is the content itself.  One of     *)
(* the contents is the text "a.md", which is also a file name.             *)
(***************************************************************************)
IngestionInstance == 1
RagInstance == 2

DocFiles == {"a.md", "b.md"}
DocContents == {"v1", "v2", "a.md"}

\* hashlib.sha256(content).hexdigest(), and compute_file_hash of the file that
\* holds the content
content_hash(content) == content

\* FileManager.is_file_changed(file_path, filename), as ingest_single_document
\* calls it: is_file_changed(file_path, content).  The file at file_path holds
\* the content.
is_file_changed(files, content) ==
    IF content \notin DOMAIN files THEN TRUE
    ELSE files[content].hash # content_hash(content)

\* FileManager.update_file_manifest(file_path, content)
update_file_manifest(files, filename, content) ==
    [f \in DOMAIN files \cup {filename} |->
        IF f = filename THEN [hash |-> content_hash(content)] ELSE files[f]]

\* process_document and _process_chunks_with_embeddings: the chunks of the
\* document, each a dict with the keys id, content, embedding and metadata.
chunks_with_embeddings(filename, content) ==
    <<[kind |-> "dict", id |-> <<filename, 0>>, content |-> content]>>

\* FAISSService.upsert_chunks(chunks): <<index, metadata, returned value>>.
\* hasattr(chunk, 'embedding') is False for a dict, and the warning of that
\* branch reads chunk.id, which raises AttributeError: the except branch
\* returns False after ensure_index, before anything is added.
upsert_chunks(idx, md, chunks) ==
    IF chunks = <<>> THEN <<idx, md, FALSE>>
    ELSE IF \E k \in 1..Len(chunks) : chunks[k].kind = "dict"
    THEN <<ensure_index(idx), md, FALSE>>
    ELSE <<[exists |-> TRUE,
            vectors |-> ensure_index(idx).vectors
                            \o [k \in 1..Len(chunks) |-> chunks[k].id]],
           md \o [k \in 1..Len(chunks) |-> chunks[k].id], TRUE>>

MaxIngests == 3

IngestInit ==
    /\ IngestIdle
    /\ EmbeddingIdle
    /\ GateIdle
    /\ AskIdle
    /\ RetrievalIdle
    /\ IndexIdle
    /\ ChunkIdle
    /\ PlanIdle
    /\ SessionIdle
    /\ SectionIdle
    /\ MmrIdle

\* ingest_single_document(file_path, content); save_fails: _save_index raises
\* inside and save_index returns False.  ingest_uploaded_file writes the
\* content to the file and calls ingest_single_document.
IngestDocument(entry) ==
    /\ ingests < MaxIngests
    /\ \E filename \in DocFiles, content \in DocContents, save_fails \in BOOLEAN :
         LET i == IngestionInstance
             unchanged == filename \in DOMAIN ingested /\ ingested[filename] = content
             chunks == chunks_with_embeddings(filename, content)
             upserted == upsert_chunks(index[i], metadata[i], chunks)
             \* _save_index runs inside upsert_chunks only when it succeeds, and
             \* again in save_index
             saved == ~save_fails
             result(status) ==
                 [entry |-> entry, filename |-> filename, content |-> content,
                  status |-> status, unchanged |-> unchanged, chunks |-> chunks,
                  upsert_ok |-> upserted[3], save_ok |-> saved,
                  index_before |-> <<index[i], metadata[i]>>,
                  manifest_before |-> manifest]
         IN  IF ~is_file_changed(manifest, content)
             THEN /\ ingest_result' = result("skipped")
                  /\ UNCHANGED <<manifest, ingested, index, metadata, index_file,
                                 metadata_file, saves, save_id, last_call>>
             ELSE /\ index' = [index EXCEPT ![i] = upserted[1]]
                  /\ metadata' = [metadata EXCEPT ![i] = upserted[2]]
                  /\ saves' = saves + 1
                  /\ save_id' = [save_id EXCEPT ![i] = saves + 1]
                  /\ index_file' =
                         IF saved
                         THEN [exists |-> TRUE, data |-> upserted[1].vectors,
                               save |-> saves + 1]
                         ELSE index_file
                  /\ metadata_file' =
                         IF saved
                         THEN [exists |-> TRUE, data |-> upserted[2], save |-> saves + 1]
                         ELSE metadata_file
                  /\ last_call' = [last_call EXCEPT ![i] = "save_index"]
                  /\ manifest' = update_file_manifest(manifest, filename, content)
                  /\ ingested' = [f \in DOMAIN ingested \cup {filename} |->
                                     IF f = filename THEN content ELSE ingested[f]]
                  /\ ingest_result' = result("success")
    /\ ingests' = ingests + 1
    /\ UNCHANGED <<pc, loaded, rag_seen>>
    /\ UNCHANGED <<gateVars, askVars, retrievalVars, chunkVars, planVars, sessionVars,
                   sectionVars, mmrVars, embeddingVars>>

IngestSingleDocument == IngestDocument("ingest_single_document")
IngestUploadedFile == IngestDocument("ingest_uploaded_file")

\* rag_service.ask_question: what retrieve_diverse_results finds in
\* self.faiss_service of the RAG service.
AskAfterIngest ==
    /\ ingest_result # NoneVal
    /\ rag_seen = NoneVal
    /\ rag_seen' = [populated |-> is_index_populated(index[RagInstance],
                                                     metadata[RagInstance]),
                    metadata |-> metadata[RagInstance],
                    index |-> index[RagInstance]]
    /\ UNCHANGED <<manifest, ingested, ingest_result, ingests>>
    /\ UNCHANGED exceptIngest

IngestNext == IngestSingleDocument \/ IngestUploadedFile \/ AskAfterIngest

SpecIngest == IngestInit /\ [][IngestNext]_vars

\* C24: re-ingestion is idempotent.  Ingesting a file whose content is
\* unchanged since its last successful ingestion returns "skipped" and leaves
\* the index unchanged, and the index never holds two entries for one chunk id.
C24_ReingestSkipped ==
    /\ (ingest_result # NoneVal /\ ingest_result.unchanged) =>
           /\ ingest_result.status = "skipped"
           /\ <<index[IngestionInstance], metadata[IngestionInstance]>>
                  = ingest_result.index_before
    /\ \A j, k \in 1..Len(metadata[IngestionInstance]) :
           j # k => metadata[IngestionInstance][j] # metadata[IngestionInstance][k]

\* C27: ingest_single_document returns "success" only if upsert_chunks stored
\* every chunk of the document, with vector and metadata, and the index was
\* saved; when upsert_chunks or save_index reports failure the status is
\* "error" and the manifest is not updated.
C27_SuccessMeansStored ==
    ingest_result # NoneVal =>
        /\ ingest_result.status = "success" =>
               /\ ingest_result.upsert_ok /\ ingest_result.save_ok
               /\ \A k \in 1..Len(ingest_result.chunks) :
                      /\ ingest_result.chunks[k].id
                             \in Range(metadata[IngestionInstance])
                      /\ ingest_result.chunks[k].id
                             \in Range(index[IngestionInstance].vectors)
        /\ (ingest_result.status # "skipped"
            /\ ~(ingest_result.upsert_ok /\ ingest_result.save_ok)) =>
               /\ ingest_result.status = "error"
               /\ manifest = ingest_result.manifest_before

\* C28: after an ingestion returned success, a later ask_question retrieves
\* from an index that holds the ingested chunks, and the index of the RAG
\* service is the index of the ingestion service.
C28_IngestedVisible ==
    (ingest_result # NoneVal /\ ingest_result.status = "success" /\ rag_seen # NoneVal) =>
        /\ \A k \in 1..Len(ingest_result.chunks) :
               ingest_result.chunks[k].id \in Range(rag_seen.metadata)
        /\ rag_seen.metadata = metadata[IngestionInstance]
        /\ rag_seen.index = index[IngestionInstance]

(***************************************************************************)
(* EmbeddingService (api/app/services/embedding_service.py).  The          *)
(* environment says which provider is selected, whether its credentials    *)
(* are set, whether the openai library can be imported, and whether a call *)
(* of the provider succeeds.  A vector is a record of where it came from,  *)
(* the text it embeds and its length.                                      *)
(***************************************************************************)
Environments ==
    [provider : {"openai", "azure"}, api_key : BOOLEAN, deployment : BOOLEAN,
     library : BOOLEAN, call_ok : BOOLEAN, dimension : {2, 3}]

\* the dimension of the vectors of the provider's model
provider_dimension == 3

\* a provider is configured: _init_openai_client or _init_azure_client would
\* build a client
Configured(env) ==
    /\ env.library
    /\ env.api_key
    /\ env.provider = "azure" => env.deployment

\* _init_azure_client and _init_openai_client: <<client, model>>
init_client(env) ==
    IF Configured(env) THEN <<[kind |-> "client", provider |-> env.provider], "model">>
    ELSE <<NoneVal, NoneVal>>

\* _ensure_initialized: <<client, model, _initialized>>
ensure_initialized(env, cl, mo, init) ==
    IF ~init THEN <<init_client(env)[1], init_client(env)[2], TRUE>>
    ELSE <<cl, mo, init>>

\* _generate_mock_embeddings(texts)
generate_mock_embeddings(env, texts) ==
    [k \in 1..Len(texts) |-> [source |-> "mock", text |-> texts[k], len |-> env.dimension]]

\* self.client.embeddings.create(input=texts, model=self.model)
provider_embeddings(texts) ==
    [k \in 1..Len(texts) |->
        [source |-> "provider", text |-> texts[k], len |-> provider_dimension]]

\* generate_embeddings(texts): <<returned list, client, model, _initialized>>
generate_embeddings(env, cl, mo, init, texts) ==
    IF texts = <<>> THEN <<(<<>>), cl, mo, init>>
    ELSE IF cl # NoneVal /\ mo # NoneVal
    THEN LET e == ensure_initialized(env, cl, mo, init)
         IN  IF e[1] # NoneVal /\ env.call_ok
             THEN <<provider_embeddings(texts), e[1], e[2], e[3]>>
             ELSE <<generate_mock_embeddings(env, texts), e[1], e[2], e[3]>>
    ELSE <<generate_mock_embeddings(env, texts), cl, mo, init>>

MaxTexts == 2
MaxCalls == 2
EmbeddedTexts == {"t1", "t2"}

\* EmbeddingService(): __init__ reads the provider and the dimension, and
\* leaves the client to the first use.
EmbeddingInit ==
    /\ environment \in Environments
    /\ client = NoneVal
    /\ model = NoneVal
    /\ initialized = FALSE
    /\ embeddings = NoneVal
    /\ calls = 0
    /\ GateIdle
    /\ AskIdle
    /\ RetrievalIdle
    /\ IndexIdle
    /\ ChunkIdle
    /\ PlanIdle
    /\ SessionIdle
    /\ SectionIdle
    /\ MmrIdle
    /\ IngestIdle

Embed(texts, single) ==
    /\ calls < MaxCalls
    /\ LET g == generate_embeddings(environment, client, model, initialized, texts)
       IN  /\ embeddings' = [texts |-> texts, single |-> single, vectors |-> g[1],
                             raised |-> FALSE]
           /\ client' = g[2]
           /\ model' = g[3]
           /\ initialized' = g[4]
    /\ calls' = calls + 1
    /\ UNCHANGED environment
    /\ UNCHANGED exceptEmbedding

GenerateEmbeddings == \E texts \in SeqsUpTo(EmbeddedTexts, MaxTexts) : Embed(texts, FALSE)

\* generate_single_embedding(text)
GenerateSingleEmbedding == \E text \in EmbeddedTexts : Embed(<<text>>, TRUE)

EmbeddingNext == GenerateEmbeddings \/ GenerateSingleEmbedding

SpecEmbedding == EmbeddingInit /\ [][EmbeddingNext]_vars

\* C25: the client is initialised on the first use of generate_embeddings.
\* With a provider configured and its call succeeding the vectors are the
\* provider's; mock vectors are returned only with no provider configured or a
\* failed call; every call returns one vector of the configured dimension per
\* text and does not raise.
C25_ProviderWhenConfigured ==
    (embeddings # NoneVal /\ embeddings.texts # <<>>) =>
        /\ initialized
        /\ (Configured(environment) /\ environment.call_ok) =>
               \A k \in 1..Len(embeddings.vectors) :
                   embeddings.vectors[k].source = "provider"
        /\ (\E k \in 1..Len(embeddings.vectors) : embeddings.vectors[k].source = "mock") =>
               (~Configured(environment) \/ ~environment.call_ok)
        /\ Len(embeddings.vectors) = Len(embeddings.texts)
        /\ \A k \in 1..Len(embeddings.vectors) :
               embeddings.vectors[k].len = environment.dimension
        /\ ~embeddings.raised

(***************************************************************************)
(* Steps 6 and 7 of retrieve_diverse_results, in SpecRetrieval.            *)
(***************************************************************************)
\* The output of step 6 for the merged candidates of the call.
MmrOutput == mmr_diversity_selection(merged_results, top_k, TRUE)

\* C26: when no stage raises, retrieve_diverse_results returns exactly the
\* output of the MMR stage: _enforce_diversity_constraints gets at most top_k
\* results and hands them on as they are, so the returned list has at most
\* top_k elements, with pairwise distinct chunk ids.
C26_ReturnsMmrOutput ==
    (retrieval_pc = "returned" /\ failure = "none") =>
        /\ Len(MmrOutput) <= top_k
        /\ final_results = MmrOutput
        /\ Len(final_results) <= top_k
        /\ \A i, j \in 1..Len(final_results) :
               i # j => get_chunk_id(final_results[i].chunk)
                            # get_chunk_id(final_results[j].chunk)

\* The merged candidates are more than top_k, the MMR loop ran, and the call
\* returned top_k of them.
C26_Witness ==
    /\ retrieval_pc = "returned"
    /\ failure = "none"
    /\ top_k > 1
    /\ Len(merged_results) > top_k
    /\ Len(final_results) = top_k

(***************************************************************************)
(* The chunk ids of one processed document, in SpecChunk.                  *)
(***************************************************************************)
\* C29: within one processed document the chunk ids are pairwise distinct: no
\* two chunks of _generate_chunks_with_sections, the final chunk added after
\* the loop included, have the same (filename, start_line, end_line).
C29_DistinctChunkIds ==
    \A i, j \in 1..Len(processed_chunks) :
        i # j => processed_chunks[i].id # processed_chunks[j].id

(***************************************************************************)
(* The evidence check of the gate inside ask_question, in SpecAsk.         *)
(***************************************************************************)
\* ask_question reached enforce_gate: the search found chunks and nothing
\* raised before the gate.
GateReached == response # NoneVal /\ search_found /\ ~fault

\* C30: in ask_question the evidence check of the gate never fails.  The
\* diagnostics handed to enforce_gate hold the keys "logs" and "queues" and at
\* least 3 keys, so the evidence score is at least min_evidence_threshold
\* whatever the citations are, and "Detailed Diagnostics" is never listed as
\* missing.
C30_EvidenceNeverFails ==
    /\ {"logs", "queues"} \subseteq run_diagnostics.keys
    /\ Cardinality(run_diagnostics.keys) >= 3
    /\ GateReached =>
           /\ "evidence" \notin Range(response.quality_gate.issues)
           /\ response.answer.kind = "missing_context" =>
                  /\ response.answer.evidence >= min_evidence_threshold
                  /\ "Detailed Diagnostics" \notin Range(response.answer.sections)

\* The gate rejected an answer without any citation: the evidence score is
\* the 2 points of the diagnostics.
C30_Witness ==
    /\ GateReached
    /\ response.answer.kind = "missing_context"
    /\ response.answer.evidence = min_evidence_threshold
    /\ response.answer.sections # <<>>

====
